---------------------------- MODULE Spec2Model ----------------------------
(***************************************************************************)
(* Label aggregation engine of finish-finder (data/training):              *)
(*   labeling_functions.py   the 12 labeling functions, their registry and *)
(*                           apply_labeling_functions (vote matrix)        *)
(*   train_label_model.py    majority_vote_aggregate, hierarchical_-       *)
(*                           aggregate, train_snorkel_model and main()     *)
(*                                                                         *)
(* Conventions of the model                                                *)
(*   - a numeric cell of an observation is a record [k, n]: k = "num" with *)
(*     the integer n, or k = "nan" (float NaN, what read_csv gives for an  *)
(*     empty cell), k = "none" (None, or the key absent: row.get's default *)
(*     is 0 and `None or 0` is 0 as well), k = "text" (non-numeric text).  *)
(*   - total_sig_strikes_z is kept in hundredths (1.28 is 128).            *)
(*   - string cells are strings; "nan" stands for a float NaN in a string  *)
(*     column; a flag cell is one of "True" "False" "1" "0" "nan".         *)
(*   - a probability vector is a record [num, den]: entry t is             *)
(*     num[t] / den.  The hand-written vectors are in hundredths.          *)
(*   - tiers are 0..4 as in the code; sequences are 1-based, so function j *)
(*     of the registry (0-based in the code) is cell j+1 of a row.         *)
(***************************************************************************)
EXTENDS Integers, Sequences, FiniteSets, TLC

VARIABLES
    mode,     \* entry point being run: "main", "hierarchical", "majority",
              \* "snorkel" (train_snorkel_model)
    df,       \* the observations (the data frame), in input order
    L,        \* the vote matrix, one row per observation labelled so far
    labels,   \* aggregated labels (0..4), one per row aggregated so far
    probs,    \* aggregated probability vectors, one per row aggregated so far
    out,      \* the saved columns snorkel_tier / snorkel_confidence
    pc,       \* "apply", "aggregate", "fit", "returned", "raised", "done"
    i,        \* loop index of the running loop (0-based, as in the code)
    SNORKEL_AVAILABLE,  \* module flag: the import of snorkel succeeded
    model,    \* third result of train_snorkel_model: "None", "LabelModel"
    log,      \* records logged by apply_labeling_functions
    index,    \* df.index: the index label of each row of the frame
    summary,  \* what the diagnostics report (get_lf_summary,
              \* analyze_lf_accuracy, the coverage line of main)
    first,    \* <<>>, or the matrix and the result of the first of two runs
    pct,      \* analyze_distributions.py: values, percentiles, result
    pipeline, \* APIIngestionPipeline: events, fights, fighters, and the
              \* requests posted and items returned so far
    spider    \* UFCStatsSpider: its arguments, the response being parsed
              \* and the requests yielded

\* the variables the label engine of train_label_model.py does not write
auxVars == <<index, summary, first, pct, pipeline, spider>>

vars == <<mode, df, L, labels, probs, out, pc, i, SNORKEL_AVAILABLE, model, log,
          index, summary, first, pct, pipeline, spider>>

---------------------------------------------------------------------------
\* labeling_functions.py: constants

ABSTAIN == -1
TIER_1_LOW == 0
TIER_2_AVERAGE == 1
TIER_3_GOOD == 2
TIER_4_EXCELLENT == 3
TIER_5_ELITE == 4

low_volume == 28
medium_volume == 61
high_volume == 104
very_high_volume == 153
high_action_finish == 80
very_high_action_finish == 100
grappling_control_min == 300

Votes == ABSTAIN .. TIER_5_ELITE
Tiers == TIER_1_LOW .. TIER_5_ELITE

---------------------------------------------------------------------------
\* Python values

Num(n) == [k |-> "num", n |-> n]
NaN == [k |-> "nan", n |-> 0]
None == [k |-> "none", n |-> 0]
Text == [k |-> "text", n |-> 0]

\* int(x or 0): NaN is truthy and int(NaN) raises ValueError; so does
\* int('abc'); None and 0 give 0.
IntRaises(x) == x.k \in {"nan", "text"}
IntOr0(x) == IF x.k = "num" THEN x.n ELSE 0

\* x in [True, 'True', 1, '1']
InTrueList(x) == x \in {"True", "1"}

\* pd.isna on a string cell
IsNaStr(s) == s = "nan"

\* an outcome of a call of a labeling function
Return(v) == [exc |-> FALSE, val |-> v]
Raise == [exc |-> TRUE, val |-> ABSTAIN]

LegacyBonuses == {"POTN", "KOTN", "SOTN"}

---------------------------------------------------------------------------
\* labeling_functions.py: the labeling functions

lf_fotn_bonus_wrong_award(row) ==
    IF row.fight_bonus = "POTN" THEN Return(TIER_5_ELITE) ELSE Return(ABSTAIN)

lf_fotn_bonus(row) ==
    IF row.fight_bonus = "FOTN" THEN Return(TIER_5_ELITE) ELSE Return(ABSTAIN)

lf_potn_bonus(row) ==
    IF row.fight_bonus \in LegacyBonuses THEN Return(TIER_4_EXCELLENT)
    ELSE IF row.fighter1_bonus \in LegacyBonuses
            \/ row.fighter2_bonus \in LegacyBonuses
         THEN Return(TIER_4_EXCELLENT)
    ELSE Return(ABSTAIN)

lf_implied_bonus(row) ==
    IF ~IsNaStr(row.fight_bonus) /\ row.fight_bonus # "" THEN Return(ABSTAIN)
    ELSE IF InTrueList(row.implied_bonus) THEN Return(TIER_4_EXCELLENT)
    ELSE Return(ABSTAIN)

\* the very early finish asking for the strike count of the quick finish
lf_early_finish_min_strikes_30(row) ==
    IF InTrueList(row.is_finish)
    THEN IF \/ IntRaises(row.round)
            \/ IntRaises(row.total_fight_time_seconds)
            \/ IntRaises(row.total_sig_strikes)
         THEN Raise
         ELSE LET fight_round == IntOr0(row.round)
                  fight_time == IntOr0(row.total_fight_time_seconds)
                  sig_strikes == IntOr0(row.total_sig_strikes)
              IN  IF fight_round = 1 /\ fight_time < 60
                  THEN IF sig_strikes >= 30 THEN Return(TIER_5_ELITE)
                       ELSE Return(TIER_4_EXCELLENT)
                  ELSE IF fight_round = 1 /\ fight_time < 180 /\ sig_strikes >= 30
                  THEN Return(TIER_4_EXCELLENT)
                  ELSE Return(ABSTAIN)
    ELSE Return(ABSTAIN)

lf_early_finish(row) ==
    IF InTrueList(row.is_finish)
    THEN IF \/ IntRaises(row.round)
            \/ IntRaises(row.total_fight_time_seconds)
            \/ IntRaises(row.total_sig_strikes)
         THEN Raise
         ELSE LET fight_round == IntOr0(row.round)
                  fight_time == IntOr0(row.total_fight_time_seconds)
                  sig_strikes == IntOr0(row.total_sig_strikes)
              IN  IF fight_round = 1 /\ fight_time < 60
                  THEN IF sig_strikes > 10 THEN Return(TIER_5_ELITE)
                       ELSE Return(TIER_4_EXCELLENT)
                  ELSE IF fight_round = 1 /\ fight_time < 180 /\ sig_strikes >= 30
                  THEN Return(TIER_4_EXCELLENT)
                  ELSE Return(ABSTAIN)
    ELSE Return(ABSTAIN)

lf_high_volume_competitive(row) ==
    IF IntRaises(row.total_sig_strikes) THEN Raise
    ELSE IF IntOr0(row.total_sig_strikes) > very_high_volume
    THEN IF IntRaises(row.total_knockdowns) THEN Raise
         ELSE IF IntOr0(row.total_knockdowns) >= 2 THEN Return(TIER_4_EXCELLENT)
         ELSE Return(TIER_3_GOOD)
    ELSE Return(ABSTAIN)

\* the Tier 4 cut of the z-score at 1.6 instead of 1.5
lf_high_volume_zscore_cut_160(row) ==
    LET strikes_z == row.total_sig_strikes_z
    IN  IF strikes_z.k \in {"none", "nan"} THEN Return(ABSTAIN)
        ELSE IF strikes_z.k = "text" THEN Raise
        ELSE IF strikes_z.n > 160 THEN Return(TIER_4_EXCELLENT)
        ELSE IF strikes_z.n > 128 THEN Return(TIER_3_GOOD)
        ELSE Return(ABSTAIN)

lf_high_volume_zscore(row) ==
    LET strikes_z == row.total_sig_strikes_z
    IN  IF strikes_z.k \in {"none", "nan"} THEN Return(ABSTAIN)
        ELSE IF strikes_z.k = "text" THEN Raise   \* str > float: TypeError
        ELSE IF strikes_z.n > 150 THEN Return(TIER_4_EXCELLENT)
        ELSE IF strikes_z.n > 128 THEN Return(TIER_3_GOOD)
        ELSE Return(ABSTAIN)

lf_finish_with_action(row) ==
    IF ~InTrueList(row.is_finish) THEN Return(ABSTAIN)
    ELSE IF IntRaises(row.total_sig_strikes) THEN Raise
    ELSE IF IntOr0(row.total_sig_strikes) > very_high_action_finish
         THEN Return(TIER_4_EXCELLENT)
    ELSE IF IntOr0(row.total_sig_strikes) > high_action_finish
         THEN Return(TIER_3_GOOD)
    ELSE Return(ABSTAIN)

lf_any_finish_reads_strikes(row) ==
    LET fight_bonus == IF IsNaStr(row.fight_bonus) THEN "" ELSE row.fight_bonus
    IN  IF IntRaises(row.total_sig_strikes) THEN Raise
        ELSE IF InTrueList(row.is_finish) /\ fight_bonus = ""
        THEN Return(TIER_3_GOOD)
        ELSE Return(ABSTAIN)

lf_any_finish(row) ==
    LET fight_bonus == IF IsNaStr(row.fight_bonus) THEN "" ELSE row.fight_bonus
    IN  IF InTrueList(row.is_finish) /\ fight_bonus = ""
        THEN Return(TIER_3_GOOD)
        ELSE Return(ABSTAIN)

lf_knockdown_present(row) ==
    IF IntRaises(row.total_knockdowns) THEN Raise
    ELSE IF IntOr0(row.total_knockdowns) >= 3 THEN Return(TIER_4_EXCELLENT)
    ELSE IF IntOr0(row.total_knockdowns) >= 2 THEN Return(TIER_3_GOOD)
    ELSE Return(ABSTAIN)

lf_low_volume_no_tier1(row) ==
    IF IntRaises(row.total_sig_strikes) THEN Raise
    ELSE IF InTrueList(row.is_finish) /\ IntRaises(row.total_fight_time_seconds)
    THEN Raise
    ELSE IF InTrueList(row.is_finish) /\ IntOr0(row.total_fight_time_seconds) < 180
    THEN Return(ABSTAIN)
    ELSE IF IntOr0(row.total_sig_strikes) < medium_volume
         THEN Return(TIER_2_AVERAGE)
    ELSE Return(ABSTAIN)

lf_low_volume(row) ==
    IF IntRaises(row.total_sig_strikes) THEN Raise
    ELSE IF InTrueList(row.is_finish) /\ IntRaises(row.total_fight_time_seconds)
    THEN Raise
    ELSE IF InTrueList(row.is_finish) /\ IntOr0(row.total_fight_time_seconds) < 180
    THEN Return(ABSTAIN)
    ELSE IF IntOr0(row.total_sig_strikes) < low_volume THEN Return(TIER_1_LOW)
    ELSE IF IntOr0(row.total_sig_strikes) < medium_volume
         THEN Return(TIER_2_AVERAGE)
    ELSE Return(ABSTAIN)

\* control_time / fight_time > 0.6 is 10 * control_time > 6 * fight_time
\* for fight_time > 0
lf_one_sided_grappling(row) ==
    IF \/ IntRaises(row.total_control_time)
       \/ IntRaises(row.total_sig_strikes)
       \/ IntRaises(row.total_fight_time_seconds)
    THEN Raise
    ELSE LET control_time == IntOr0(row.total_control_time)
             sig_strikes == IntOr0(row.total_sig_strikes)
             fight_time == IntOr0(row.total_fight_time_seconds)
         IN  IF fight_time = 0 THEN Return(ABSTAIN)
             ELSE IF 10 * control_time > 6 * fight_time
                     /\ sig_strikes < medium_volume
             THEN Return(TIER_1_LOW)
             ELSE IF control_time > grappling_control_min
                     /\ sig_strikes < high_volume
             THEN Return(TIER_2_AVERAGE)
             ELSE Return(ABSTAIN)

lf_decision_low_action(row) ==
    IF InTrueList(row.is_finish) THEN Return(ABSTAIN)
    ELSE IF IntRaises(row.total_sig_strikes) THEN Raise
    ELSE IF IntOr0(row.total_sig_strikes) < high_volume
         THEN Return(TIER_2_AVERAGE)
    ELSE Return(ABSTAIN)

\* The registry, in order (index j of the code is j + 1 here)
NLF == 12

\* the function LF_NAMES[j] names
LF_NAMES(j, row) ==
    CASE j = 1 -> lf_fotn_bonus(row)
      [] j = 2 -> lf_potn_bonus(row)
      [] j = 3 -> lf_implied_bonus(row)
      [] j = 4 -> lf_early_finish(row)
      [] j = 5 -> lf_high_volume_competitive(row)
      [] j = 6 -> lf_high_volume_zscore(row)
      [] j = 7 -> lf_finish_with_action(row)
      [] j = 8 -> lf_any_finish(row)
      [] j = 9 -> lf_knockdown_present(row)
      [] j = 10 -> lf_low_volume(row)
      [] j = 11 -> lf_one_sided_grappling(row)
      [] j = 12 -> lf_decision_low_action(row)

\* the registry with the two volume functions listed in the other order
LABELING_FUNCTIONS_volume_swapped(j, row) ==
    CASE j = 5 -> lf_high_volume_zscore(row)
      [] j = 6 -> lf_high_volume_competitive(row)
      [] OTHER -> LF_NAMES(j, row)

LABELING_FUNCTIONS(j, row) ==
    CASE j = 1 -> lf_fotn_bonus(row)
      [] j = 2 -> lf_potn_bonus(row)
      [] j = 3 -> lf_implied_bonus(row)
      [] j = 4 -> lf_early_finish(row)
      [] j = 5 -> lf_high_volume_competitive(row)
      [] j = 6 -> lf_high_volume_zscore(row)
      [] j = 7 -> lf_finish_with_action(row)
      [] j = 8 -> lf_any_finish(row)
      [] j = 9 -> lf_knockdown_present(row)
      [] j = 10 -> lf_low_volume(row)
      [] j = 11 -> lf_one_sided_grappling(row)
      [] j = 12 -> lf_decision_low_action(row)

\* The body of the inner loop of apply_labeling_functions: try / except
\* around each single call.
CellAbortsRow(j, row) ==
    IF \E jj \in 1..j : LABELING_FUNCTIONS(jj, row).exc
    THEN ABSTAIN
    ELSE LABELING_FUNCTIONS(j, row).val

Cell(j, row) ==
    IF LABELING_FUNCTIONS(j, row).exc
    THEN ABSTAIN
    ELSE LABELING_FUNCTIONS(j, row).val

VoteRow(row) == [j \in 1..NLF |-> Cell(j, row)]

---------------------------------------------------------------------------
\* train_label_model.py: majority_vote_aggregate

Hundredths(a, b, c, d, e) == [num |-> <<a, b, c, d, e>>, den |-> 100]

\* L[i][L[i] != ABSTAIN]
row_votes(row) == SelectSeq(row, LAMBDA v : v # ABSTAIN)

\* Counter(row_votes): a dict keeps its keys in first-insertion order
RECURSIVE CounterKeys(_)
CounterKeys(s) ==
    IF s = <<>> THEN <<>>
    ELSE LET front == CounterKeys(SubSeq(s, 1, Len(s) - 1))
             last == s[Len(s)]
         IN  IF \E p \in 1..Len(front) : front[p] = last
             THEN front
             ELSE Append(front, last)

\* vote_counts.get(tier, 0)
CounterGet(s, tier) == Cardinality({p \in 1..Len(s) : s[p] = tier})

\* vote_counts.most_common(1)[0][0]: heapq.nlargest(1, items, key=count) is
\* max(items, key=count), the first item, in dict order, of maximal count
most_common_first_vote(s) == s[1]

most_common_lowest_tier(s) ==
    CHOOSE t \in Tiers :
        /\ CounterGet(s, t) > 0
        /\ \A u \in Tiers : CounterGet(s, u) <= CounterGet(s, t)
        /\ \A u \in 0..(t - 1) : CounterGet(s, u) < CounterGet(s, t)

most_common(s) ==
    LET keys == CounterKeys(s)
        p == CHOOSE p \in 1..Len(keys) :
                 /\ \A q \in 1..Len(keys) :
                        CounterGet(s, keys[q]) <= CounterGet(s, keys[p])
                 /\ \A q \in 1..(p - 1) :
                        CounterGet(s, keys[q]) < CounterGet(s, keys[p])
    IN  keys[p]

majority_vote_row_no_default(row) ==
    LET votes == row_votes(row)
    IN  IF Len(votes) = 0
        THEN [label |-> 0, probs |-> [num |-> <<0, 0, 0, 0, 0>>, den |-> 1]]
        ELSE [label |-> most_common(votes),
              probs |-> [num |-> [t \in 1..5 |-> CounterGet(votes, t - 1)],
                         den |-> Len(votes)]]

majority_vote_row(row) ==
    LET votes == row_votes(row)
    IN  IF Len(votes) = 0
        THEN [label |-> TIER_2_AVERAGE, probs |-> Hundredths(10, 60, 20, 10, 0)]
        ELSE [label |-> most_common(votes),
              probs |-> [num |-> [t \in 1..5 |-> CounterGet(votes, t - 1)],
                         den |-> Len(votes)]]

---------------------------------------------------------------------------
\* train_label_model.py: hierarchical_aggregate, the body of its loop.
\* row[j] of the code is row[j + 1] here.

Result(label, a, b, c, d, e) == [label |-> label, probs |-> Hundredths(a, b, c, d, e)]

\* lines 173-194: the negative functions, tried when no positive level fired
negative_lfs_unbalanced_default(row) ==
    LET low_volume_vote == row[10]
        one_sided_vote == row[11]
        decision_vote == row[12]
    IN  IF low_volume_vote = TIER_1_LOW \/ one_sided_vote = TIER_1_LOW
        THEN Result(TIER_1_LOW, 70, 20, 8, 2, 0)
        ELSE IF low_volume_vote = TIER_2_AVERAGE \/ one_sided_vote = TIER_2_AVERAGE
        THEN Result(TIER_2_AVERAGE, 25, 55, 15, 5, 0)
        ELSE IF decision_vote # ABSTAIN
        THEN Result(TIER_2_AVERAGE, 20, 55, 20, 5, 0)
        ELSE Result(TIER_2_AVERAGE, 15, 50, 25, 8, 0)

\* the Tier 2 votes looked at before the Tier 1 votes
negative_lfs_tier_2_first(row) ==
    LET low_volume_vote == row[10]
        one_sided_vote == row[11]
        decision_vote == row[12]
    IN  IF low_volume_vote = TIER_2_AVERAGE \/ one_sided_vote = TIER_2_AVERAGE
        THEN Result(TIER_2_AVERAGE, 25, 55, 15, 5, 0)
        ELSE IF low_volume_vote = TIER_1_LOW \/ one_sided_vote = TIER_1_LOW
        THEN Result(TIER_1_LOW, 70, 20, 8, 2, 0)
        ELSE IF decision_vote # ABSTAIN
        THEN Result(TIER_2_AVERAGE, 20, 55, 20, 5, 0)
        ELSE Result(TIER_2_AVERAGE, 15, 50, 25, 8, 2)

negative_lfs(row) ==
    LET low_volume_vote == row[10]
        one_sided_vote == row[11]
        decision_vote == row[12]
    IN  IF low_volume_vote = TIER_1_LOW \/ one_sided_vote = TIER_1_LOW
        THEN Result(TIER_1_LOW, 70, 20, 8, 2, 0)
        ELSE IF low_volume_vote = TIER_2_AVERAGE \/ one_sided_vote = TIER_2_AVERAGE
        THEN Result(TIER_2_AVERAGE, 25, 55, 15, 5, 0)
        ELSE IF decision_vote # ABSTAIN
        THEN Result(TIER_2_AVERAGE, 20, 55, 20, 5, 0)
        ELSE Result(TIER_2_AVERAGE, 15, 50, 25, 8, 2)

\* the chain with the absolute-volume function (index 4) tried at its
\* registry position, before the z-score function
hierarchical_row_registry_order(row) ==
    IF row[1] # ABSTAIN THEN Result(TIER_5_ELITE, 0, 0, 0, 5, 95)
    ELSE IF row[2] # ABSTAIN THEN Result(TIER_4_EXCELLENT, 0, 0, 5, 90, 5)
    ELSE IF row[3] # ABSTAIN THEN Result(TIER_4_EXCELLENT, 0, 0, 10, 80, 10)
    ELSE IF row[4] # ABSTAIN
    THEN IF row[4] = TIER_5_ELITE
         THEN Result(TIER_5_ELITE, 0, 0, 5, 15, 80)
         ELSE Result(TIER_4_EXCELLENT, 0, 0, 10, 75, 15)
    ELSE IF row[5] # ABSTAIN THEN Result(TIER_3_GOOD, 0, 15, 60, 20, 5)
    ELSE IF row[6] # ABSTAIN
    THEN IF row[6] = TIER_4_EXCELLENT
         THEN Result(TIER_4_EXCELLENT, 0, 5, 15, 70, 10)
         ELSE Result(TIER_3_GOOD, 0, 10, 65, 20, 5)
    ELSE IF row[7] # ABSTAIN
    THEN IF row[7] = TIER_4_EXCELLENT
         THEN Result(TIER_4_EXCELLENT, 0, 5, 15, 70, 10)
         ELSE Result(TIER_3_GOOD, 0, 10, 65, 20, 5)
    ELSE IF row[8] # ABSTAIN \/ row[9] # ABSTAIN
    THEN Result(TIER_3_GOOD, 5, 15, 60, 15, 5)
    ELSE negative_lfs(row)

\* lines 110-194: the body of the loop
hierarchical_row(row) ==
    \* Priority 1: FOTN bonus (LF0)
    IF row[1] # ABSTAIN THEN Result(TIER_5_ELITE, 0, 0, 0, 5, 95)
    \* Priority 2: POTN bonus (LF1)
    ELSE IF row[2] # ABSTAIN THEN Result(TIER_4_EXCELLENT, 0, 0, 5, 90, 5)
    \* Priority 3: implied bonus (LF2)
    ELSE IF row[3] # ABSTAIN THEN Result(TIER_4_EXCELLENT, 0, 0, 10, 80, 10)
    \* Priority 4: early finish (LF3)
    ELSE IF row[4] # ABSTAIN
    THEN IF row[4] = TIER_5_ELITE
         THEN Result(TIER_5_ELITE, 0, 0, 5, 15, 80)
         ELSE Result(TIER_4_EXCELLENT, 0, 0, 10, 75, 15)
    \* Priority 5: high volume z-score (LF5)
    ELSE IF row[6] # ABSTAIN
    THEN IF row[6] = TIER_4_EXCELLENT
         THEN Result(TIER_4_EXCELLENT, 0, 5, 15, 70, 10)
         ELSE Result(TIER_3_GOOD, 0, 10, 65, 20, 5)
    \* Priority 6: finish with action (LF6)
    ELSE IF row[7] # ABSTAIN
    THEN IF row[7] = TIER_4_EXCELLENT
         THEN Result(TIER_4_EXCELLENT, 0, 5, 15, 70, 10)
         ELSE Result(TIER_3_GOOD, 0, 10, 65, 20, 5)
    \* Priority 7: any finish (LF7) or knockdowns (LF8)
    ELSE IF row[8] # ABSTAIN \/ row[9] # ABSTAIN
    THEN Result(TIER_3_GOOD, 5, 15, 60, 15, 5)
    \* Priority 8: high volume absolute (LF4)
    ELSE IF row[5] # ABSTAIN THEN Result(TIER_3_GOOD, 0, 15, 60, 20, 5)
    ELSE negative_lfs(row)

\* np.max(probs, axis=1), kept as a fraction [num, den]
MaxOf(s) == CHOOSE m \in {s[p] : p \in 1..Len(s)} : \A p \in 1..Len(s) : s[p] <= m

np_max_first_entry(pv) == [num |-> pv.num[1], den |-> pv.den]

np_max(pv) == [num |-> MaxOf(pv.num), den |-> pv.den]

---------------------------------------------------------------------------
\* Inputs

MaxRows == 2        \* observations in a batch
MaxFiring == 2      \* non-abstaining cells of an arbitrary vote row

Observation(fb, f1, f2, ib, fin, rnd, time, strikes, kd, ctrl, z) ==
    [fight_bonus |-> fb, fighter1_bonus |-> f1, fighter2_bonus |-> f2,
     implied_bonus |-> ib, is_finish |-> fin, round |-> rnd,
     total_fight_time_seconds |-> time, total_sig_strikes |-> strikes,
     total_knockdowns |-> kd, total_control_time |-> ctrl,
     total_sig_strikes_z |-> z]

Nums(S) == {Num(n) : n \in S}

\* Observations of a one-row batch: every combination of the values below
BonusValues == {"", "nan", "FOTN", "POTN", "KOTN", "SOTN"}
FighterBonusValues == {"", "POTN"}
FlagValues == {"False", "True"}
RoundValues == Nums({1, 2})
TimeValues == Nums({0, 45, 179, 600})
StrikeValues == Nums({0, 15, 27, 40, 90, 101, 120, 200}) \cup {NaN}
KnockdownValues == Nums({0, 2, 3})
ControlValues == Nums({0, 400})
ZValues == {NaN, Num(0), Num(160)}

ObservationsWith(bonuses) ==
    {Observation(fb, f1, "", ib, fin, rnd, time, strikes, kd, ctrl, z) :
        fb \in bonuses, f1 \in FighterBonusValues, ib \in FlagValues,
        fin \in FlagValues, rnd \in RoundValues, time \in TimeValues,
        strikes \in StrikeValues, kd \in KnockdownValues,
        ctrl \in ControlValues, z \in ZValues}

\* Observations of the longer batches
ZeroDecision ==
    Observation("", "", "", "False", "False", Num(0), Num(0), Num(0), Num(0),
                Num(0), Num(0))

BatchObservations ==
    { ZeroDecision,
      [ZeroDecision EXCEPT !.fight_bonus = "nan"],
      Observation("FOTN", "", "", "False", "False", Num(3), Num(900), Num(200),
                  Num(1), Num(0), NaN),
      Observation("nan", "", "KOTN", "False", "True", Num(2), Num(400), Num(90),
                  Num(0), Num(0), NaN),
      Observation("nan", "", "", "True", "True", Num(1), Num(45), Num(15),
                  Num(1), Num(0), Num(0)),
      Observation("nan", "", "", "False", "True", Num(1), Num(45), Num(15),
                  Num(3), Num(0), Num(160)),
      Observation("nan", "", "", "False", "False", Num(3), Num(600), Num(40),
                  Num(0), Num(400), NaN),
      Observation("nan", "", "", "False", "False", Num(3), Num(900), Num(200),
                  Num(2), Num(0), Num(160)),
      Observation("nan", "", "", "False", "True", NaN, Num(100), Num(90),
                  Num(0), Num(0), NaN),
      Observation("nan", "", "", "False", "False", Num(3), NaN, NaN,
                  NaN, NaN, Text),
      Observation("nan", "", "", "nan", "nan", None, None, None,
                  Text, None, None),
      Observation("nan", "", "", "False", "True", Num(1), Num(45), Num(15),
                  Text, NaN, Text),
      Observation("nan", "", "", "False", "True", Num(1), Num(45), Num(15),
                  Num(1), Num(0), Num(0)),
      Observation("POTN", "", "", "False", "True", Num(1), Num(45), Num(15),
                  Num(1), Num(0), Num(0)) }

RECURSIVE SeqsUpTo(_, _)
SeqsUpTo(S, n) ==
    IF n = 0 THEN {<<>>}
    ELSE LET shorter == SeqsUpTo(S, n - 1)
         IN  shorter \cup {Append(s, x) : s \in {t \in shorter : Len(t) = n - 1},
                                          x \in S}

\* Vote rows given to an aggregator directly: every row within the ranges
\* of the twelve functions, and every row with at most MaxFiring
\* non-abstaining cells of any value
FunctionRange(j) ==
    CASE j \in {1} -> {ABSTAIN, TIER_5_ELITE}
      [] j \in {2, 3} -> {ABSTAIN, TIER_4_EXCELLENT}
      [] j \in {4} -> {ABSTAIN, TIER_4_EXCELLENT, TIER_5_ELITE}
      [] j \in {5, 6, 7, 9} -> {ABSTAIN, TIER_3_GOOD, TIER_4_EXCELLENT}
      [] j \in {8} -> {ABSTAIN, TIER_3_GOOD}
      [] j \in {10, 11} -> {ABSTAIN, TIER_1_LOW, TIER_2_AVERAGE}
      [] j \in {12} -> {ABSTAIN, TIER_2_AVERAGE}

RECURSIVE RangeRows(_)
RangeRows(n) ==
    IF n = 0 THEN {<<>>}
    ELSE {Append(r, v) : r \in RangeRows(n - 1), v \in FunctionRange(n)}

RECURSIVE SparseRows(_)
SparseRows(n) ==
    IF n = 0
    THEN {<<ABSTAIN, ABSTAIN, ABSTAIN, ABSTAIN, ABSTAIN, ABSTAIN,
            ABSTAIN, ABSTAIN, ABSTAIN, ABSTAIN, ABSTAIN, ABSTAIN>>}
    ELSE LET fewer == SparseRows(n - 1)
         IN  fewer \cup {[r EXCEPT ![j] = v] : r \in fewer, j \in 1..NLF, v \in Tiers}

\* every row with at most n votes of any value, and every row within the
\* ranges of the functions
VoteRows(n) == SparseRows(n) \cup RangeRows(NLF)

\* The levels of the chain of hierarchical_aggregate, as cells of a row:
\* FOTN, POTN, implied bonus, early finish, z-score volume, finish with
\* action, any finish or knockdown, absolute volume, negative fallback
LevelCells == <<{1}, {2}, {3}, {4}, {6}, {7}, {8, 9}, {5}, {10, 11, 12}>>

Fires(r, k) == \E j \in LevelCells[k] : r[j] # ABSTAIN

DecidingLevel(r) ==
    IF \E k \in 1..8 : Fires(r, k)
    THEN CHOOSE k \in 1..8 : Fires(r, k) /\ \A m \in 1..(k - 1) : ~Fires(r, m)
    ELSE 9

CellsUpTo(k) == UNION {LevelCells[m] : m \in 1..k}

AgreeUpToDecidingLevel(r1, r2) ==
    \A j \in CellsUpTo(DecidingLevel(r1)) : r1[j] = r2[j]

\* r with every cell after its deciding level abstaining
LaterCellsAbstaining(r) ==
    [j \in 1..NLF |-> IF j \in CellsUpTo(DecidingLevel(r)) THEN r[j] ELSE ABSTAIN]

---------------------------------------------------------------------------
\* State machine

\* np.full((n_samples, n_lfs), ABSTAIN), np.zeros(n_samples), np.zeros((n_samples, 5))
AllAbstain(n) == [r \in 1..n |-> [j \in 1..NLF |-> ABSTAIN]]
ZeroLabels(n) == [r \in 1..n |-> 0]
ZeroProbs(n) == [r \in 1..n |-> [num |-> <<0, 0, 0, 0, 0>>, den |-> 1]]

\* main() of train_label_model.py, from the call of apply_labeling_functions
Init ==
    /\ mode = "main"
    /\ df \in {<<o>> : o \in ObservationsWith(BonusValues)} \cup SeqsUpTo(BatchObservations, MaxRows)
    /\ L = AllAbstain(Len(df))
    /\ labels = <<>>
    /\ probs = <<>>
    /\ out = <<>>
    /\ pc = "apply"
    /\ i = 0
    /\ SNORKEL_AVAILABLE = FALSE
    /\ model = "unset"
    /\ log = <<>>
    /\ index = [p \in 1..Len(df) |-> p - 1]
    /\ summary = <<>>
    /\ first = <<>>
    /\ pct = <<>>
    /\ pipeline = <<>>
    /\ spider = <<>>

\* an aggregator called on a vote matrix
InitVotes ==
    /\ L \in {<<r>> : r \in VoteRows(MaxFiring)}
    /\ mode \in {"hierarchical", "majority"}
    /\ df = <<>>
    /\ labels = ZeroLabels(Len(L))
    /\ probs = ZeroProbs(Len(L))
    /\ out = <<>>
    /\ pc = "aggregate"
    /\ i = 0
    /\ SNORKEL_AVAILABLE = FALSE
    /\ model = "unset"
    /\ log = <<>>
    /\ index = <<>>
    /\ summary = <<>>
    /\ first = <<>>
    /\ pct = <<>>
    /\ pipeline = <<>>
    /\ spider = <<>>

\* hierarchical_aggregate called on two rows that agree up to the level
\* that decides the first
InitChain ==
    /\ mode = "hierarchical"
    /\ df = <<>>
    /\ L \in {<<r, LaterCellsAbstaining(r)>> : r \in VoteRows(MaxFiring)}
    /\ labels = ZeroLabels(Len(L))
    /\ probs = ZeroProbs(Len(L))
    /\ out = <<>>
    /\ pc = "aggregate"
    /\ i = 0
    /\ SNORKEL_AVAILABLE = FALSE
    /\ model = "unset"
    /\ log = <<>>
    /\ index = <<>>
    /\ summary = <<>>
    /\ first = <<>>
    /\ pct = <<>>
    /\ pipeline = <<>>
    /\ spider = <<>>

\* main() on the batches of BatchObservations
InitBatch ==
    /\ mode = "main"
    /\ df \in SeqsUpTo(BatchObservations, MaxRows)
    /\ L = AllAbstain(Len(df))
    /\ labels = <<>>
    /\ probs = <<>>
    /\ out = <<>>
    /\ pc = "apply"
    /\ i = 0
    /\ SNORKEL_AVAILABLE = FALSE
    /\ model = "unset"
    /\ log = <<>>
    /\ index = [p \in 1..Len(df) |-> p - 1]
    /\ summary = <<>>
    /\ first = <<>>
    /\ pct = <<>>
    /\ pipeline = <<>>
    /\ spider = <<>>

\* apply_labeling_functions: one turn of the loop over the rows.
\* `for i, row in df.iterrows()` gives the index label of the row as i,
\* and L[i, j] uses it as a position.
ApplyRow ==
    /\ mode \in {"main", "shard"} /\ pc = "apply" /\ i < Len(df)
    /\ index[i + 1] < Len(L)
    /\ L' = [L EXCEPT ![index[i + 1] + 1] = VoteRow(df[i + 1])]
    /\ i' = i + 1
    /\ UNCHANGED <<mode, df, labels, probs, out, pc, SNORKEL_AVAILABLE, model, log, auxVars>>

\* apply_labeling_functions returns; hierarchical_aggregate is entered
ApplyReturn ==
    /\ mode = "main" /\ pc = "apply" /\ i = Len(df)
    /\ labels' = ZeroLabels(Len(L))
    /\ probs' = ZeroProbs(Len(L))
    /\ pc' = "aggregate"
    /\ i' = 0
    /\ UNCHANGED <<mode, df, L, out, SNORKEL_AVAILABLE, model, log, auxVars>>

\* the loop taking the votes out of the matrix as it reads them
HierarchicalRow_consumes_votes ==
    /\ mode \in {"main", "hierarchical"} /\ pc = "aggregate" /\ i < Len(L)
    /\ labels' = [labels EXCEPT ![i + 1] = hierarchical_row(L[i + 1]).label]
    /\ probs' = [probs EXCEPT ![i + 1] = hierarchical_row(L[i + 1]).probs]
    /\ L' = [L EXCEPT ![i + 1] = [j \in 1..NLF |-> ABSTAIN]]
    /\ i' = i + 1
    /\ UNCHANGED <<mode, df, out, pc, SNORKEL_AVAILABLE, model, log, auxVars>>

\* hierarchical_aggregate: one turn of the loop over the rows
HierarchicalRow ==
    /\ mode \in {"main", "hierarchical"} /\ pc = "aggregate" /\ i < Len(L)
    /\ labels' = [labels EXCEPT ![i + 1] = hierarchical_row(L[i + 1]).label]
    /\ probs' = [probs EXCEPT ![i + 1] = hierarchical_row(L[i + 1]).probs]
    /\ i' = i + 1
    /\ UNCHANGED <<mode, df, L, out, pc, SNORKEL_AVAILABLE, model, log, auxVars>>

\* majority_vote_aggregate: one turn of the loop over the rows
MajorityRow ==
    /\ mode = "majority" /\ pc = "aggregate" /\ i < Len(L)
    /\ labels' = [labels EXCEPT ![i + 1] = majority_vote_row(L[i + 1]).label]
    /\ probs' = [probs EXCEPT ![i + 1] = majority_vote_row(L[i + 1]).probs]
    /\ i' = i + 1
    /\ UNCHANGED <<mode, df, L, out, pc, SNORKEL_AVAILABLE, model, log, auxVars>>

\* the aggregator returns (labels, probs)
AggregateReturn ==
    /\ pc = "aggregate" /\ i = Len(L)
    /\ pc' = "returned"
    /\ UNCHANGED <<mode, df, L, labels, probs, out, i, SNORKEL_AVAILABLE, model, log, auxVars>>

\* main(): df['snorkel_tier'] = labels + 1, df['snorkel_confidence'] = np.max(probs, axis=1)
SaveResults ==
    /\ mode = "main" /\ pc = "returned"
    /\ out' = [r \in 1..Len(labels) |->
                 [snorkel_tier |-> labels[r] + 1,
                  snorkel_confidence |-> np_max(probs[r])]]
    /\ pc' = "done"
    /\ UNCHANGED <<mode, df, L, labels, probs, i, SNORKEL_AVAILABLE, model, log, auxVars>>

\* train_snorkel_model called on a vote matrix
InitSnorkel ==
    /\ L \in {<<r>> : r \in SparseRows(MaxFiring)}
              \cup SeqsUpTo({VoteRow(o) : o \in BatchObservations}, MaxRows)
    /\ mode = "snorkel"
    /\ SNORKEL_AVAILABLE \in BOOLEAN
    /\ df = <<>>
    /\ labels = <<>>
    /\ probs = <<>>
    /\ out = <<>>
    /\ pc = "train"
    /\ i = 0
    /\ model = "unset"
    /\ log = <<>>
    /\ index = <<>>
    /\ summary = <<>>
    /\ first = <<>>
    /\ pct = <<>>
    /\ pipeline = <<>>
    /\ spider = <<>>

\* lines 219-221, with the aggregator run on hierarchical_aggregate
SnorkelFallback_hierarchical ==
    /\ mode = "snorkel" /\ pc = "train" /\ ~SNORKEL_AVAILABLE
    /\ labels' = [r \in 1..Len(L) |-> hierarchical_row(L[r]).label]
    /\ probs' = [r \in 1..Len(L) |-> hierarchical_row(L[r]).probs]
    /\ model' = "None"
    /\ pc' = "trained"
    /\ UNCHANGED <<mode, df, L, out, i, SNORKEL_AVAILABLE, log, auxVars>>

\* lines 219-221: if not SNORKEL_AVAILABLE: labels, probs =
\* majority_vote_aggregate(L); return labels, probs, None
SnorkelFallback ==
    /\ mode = "snorkel" /\ pc = "train" /\ ~SNORKEL_AVAILABLE
    /\ labels' = [r \in 1..Len(L) |-> majority_vote_row(L[r]).label]
    /\ probs' = [r \in 1..Len(L) |-> majority_vote_row(L[r]).probs]
    /\ model' = "None"
    /\ pc' = "trained"
    /\ UNCHANGED <<mode, df, L, out, i, SNORKEL_AVAILABLE, log, auxVars>>

\* lines 224-225: LabelModel(...) and label_model.fit(L, ...) return
SnorkelFit ==
    /\ mode = "snorkel" /\ pc = "train" /\ SNORKEL_AVAILABLE
    /\ model' = "LabelModel"
    /\ pc' = "fit"
    /\ UNCHANGED <<mode, df, L, labels, probs, out, i, SNORKEL_AVAILABLE, log, auxVars>>

\* lines 224-225: label_model.fit raises; nothing in train_snorkel_model
\* catches it
SnorkelFitRaises ==
    /\ mode = "snorkel" /\ pc = "train" /\ SNORKEL_AVAILABLE
    /\ pc' = "raised"
    /\ UNCHANGED <<mode, df, L, labels, probs, out, i, SNORKEL_AVAILABLE, model, log, auxVars>>

\* What the library predicts for a row: a probability vector, and its
\* argmax as the label (LabelModel.predict abstains on a tie)
LabelModelVectors ==
    {Hundredths(100, 0, 0, 0, 0), Hundredths(0, 50, 50, 0, 0),
     Hundredths(5, 10, 15, 30, 40)}

LabelModelPredict(pv) ==
    IF \E t \in 1..5 : \A u \in (1..5) \ {t} : pv.num[u] < pv.num[t]
    THEN (CHOOSE t \in 1..5 : \A u \in 1..5 : pv.num[u] <= pv.num[t]) - 1
    ELSE ABSTAIN

\* lines 228-231: predict_proba and predict return, and the function
\* returns labels, probs, label_model
SnorkelPredict ==
    /\ mode = "snorkel" /\ pc = "fit"
    /\ probs' \in [1..Len(L) -> LabelModelVectors]
    /\ labels' = [r \in 1..Len(L) |-> LabelModelPredict(probs'[r])]
    /\ pc' = "trained"
    /\ UNCHANGED <<mode, df, L, out, i, SNORKEL_AVAILABLE, model, log, auxVars>>

\* lines 228-229: predict_proba or predict raises
SnorkelPredictRaises ==
    /\ mode = "snorkel" /\ pc = "fit"
    /\ pc' = "raised"
    /\ UNCHANGED <<mode, df, L, labels, probs, out, i, SNORKEL_AVAILABLE, model, log, auxVars>>

NextSnorkel ==
    \/ SnorkelFallback
    \/ SnorkelFit
    \/ SnorkelFitRaises
    \/ SnorkelPredict
    \/ SnorkelPredictRaises

SpecSnorkel == InitSnorkel /\ [][NextSnorkel]_vars

---------------------------------------------------------------------------
\* Diagnostics: get_lf_summary (labeling_functions.py), the coverage line
\* of main() and analyze_lf_accuracy (train_label_model.py).  A ratio is a
\* record [num, den]; den = 0 stands for the nan of a mean over nothing.

\* L[:, j]
Column(M, j) == [r \in 1..Len(M) |-> M[r][j]]

\* np.sum(col == t)
np_sum_eq(col, t) == Len(SelectSeq(col, LAMBDA v : v = t))

\* coverage as a share of the functions instead of the observations
get_lf_summary_per_function(M) ==
    [j \in 1..NLF |->
        LET col == Column(M, j)
            non_abstain == SelectSeq(col, LAMBDA v : v # ABSTAIN)
        IN  [coverage |-> [num |-> Len(non_abstain), den |-> NLF],
             n_labels |-> Len(non_abstain),
             n_tier1 |-> np_sum_eq(col, TIER_1_LOW),
             n_tier2 |-> np_sum_eq(col, TIER_2_AVERAGE),
             n_tier3 |-> np_sum_eq(col, TIER_3_GOOD),
             n_tier4 |-> np_sum_eq(col, TIER_4_EXCELLENT),
             n_tier5 |-> np_sum_eq(col, TIER_5_ELITE)]]

\* get_lf_summary, for n_samples > 0
get_lf_summary(M) ==
    [j \in 1..NLF |->
        LET col == Column(M, j)
            non_abstain == SelectSeq(col, LAMBDA v : v # ABSTAIN)
        IN  [coverage |-> [num |-> Len(non_abstain), den |-> Len(M)],
             n_labels |-> Len(non_abstain),
             n_tier1 |-> np_sum_eq(col, TIER_1_LOW),
             n_tier2 |-> np_sum_eq(col, TIER_2_AVERAGE),
             n_tier3 |-> np_sum_eq(col, TIER_3_GOOD),
             n_tier4 |-> np_sum_eq(col, TIER_4_EXCELLENT),
             n_tier5 |-> np_sum_eq(col, TIER_5_ELITE)]]

\* np.mean(np.any(L != ABSTAIN, axis=1))
corpus_coverage(M) ==
    [num |-> Cardinality({r \in 1..Len(M) : \E j \in 1..NLF : M[r][j] # ABSTAIN}),
     den |-> Len(M)]

\* the rows of the non_abstain_mask of column j, and those of them on which
\* the vote is the final label
non_abstain_mask(M, j) == {r \in 1..Len(M) : M[r][j] # ABSTAIN}
agreements(M, lab, j) == {r \in non_abstain_mask(M, j) : M[r][j] = lab[r]}

\* the agreements averaged over all the rows
analyze_lf_accuracy_over_all_rows(M, lab) ==
    [j \in 1..NLF |->
        [coverage |-> [num |-> Cardinality(non_abstain_mask(M, j)), den |-> Len(M)],
         agreement_with_model |->
             IF Cardinality(non_abstain_mask(M, j)) = 0
             THEN [num |-> 0, den |-> 1]
             ELSE [num |-> Cardinality(agreements(M, lab, j)), den |-> Len(M)]]]

analyze_lf_accuracy(M, lab) ==
    [j \in 1..NLF |->
        [coverage |-> [num |-> Cardinality(non_abstain_mask(M, j)), den |-> Len(M)],
         agreement_with_model |->
             IF Cardinality(non_abstain_mask(M, j)) = 0
             THEN [num |-> 0, den |-> 1]
             ELSE [num |-> Cardinality(agreements(M, lab, j)),
                   den |-> Cardinality(non_abstain_mask(M, j))]]]

\* the vote rows of the batch observations
BatchVoteRows == {VoteRow(o) : o \in BatchObservations}

\* final labels handed to the diagnostics: any labels for a matrix of one
\* row, the labels of either aggregator for a longer one
DiagLabels(M) ==
    IF Len(M) <= 1
    THEN [1..Len(M) -> Tiers]
    ELSE {lab \in [1..Len(M) -> Tiers] :
             \A r \in 1..Len(M) :
                 lab[r] \in {hierarchical_row(M[r]).label,
                             majority_vote_row(M[r]).label}}

\* the diagnostics called on a vote matrix and its final labels
InitDiag ==
    /\ L \in {<<r>> : r \in SparseRows(MaxFiring)}
              \cup SeqsUpTo(BatchVoteRows, MaxRows)
    /\ labels \in DiagLabels(L)
    /\ mode = "diagnostics"
    /\ df = <<>>
    /\ probs = <<>>
    /\ out = <<>>
    /\ pc = "summary"
    /\ i = 0
    /\ SNORKEL_AVAILABLE = FALSE
    /\ model = "unset"
    /\ log = <<>>
    /\ index = <<>>
    /\ summary = [lf_summary |-> <<>>, coverage |-> <<>>, lf_analysis |-> <<>>]
    /\ first = <<>>
    /\ pct = <<>>
    /\ pipeline = <<>>
    /\ spider = <<>>

\* get_lf_summary(L) returns its table
GetLfSummary ==
    /\ mode = "diagnostics" /\ pc = "summary" /\ Len(L) > 0
    /\ summary' = [summary EXCEPT !.lf_summary = get_lf_summary(L)]
    /\ pc' = "coverage"
    /\ UNCHANGED <<mode, df, L, labels, probs, out, i, SNORKEL_AVAILABLE, model,
                   log, index, first, pct, pipeline, spider>>

\* get_lf_summary on a matrix without rows: len(non_abstain) / n_samples
\* divides by zero
GetLfSummaryRaises ==
    /\ mode = "diagnostics" /\ pc = "summary" /\ Len(L) = 0
    /\ pc' = "raised"
    /\ UNCHANGED <<mode, df, L, labels, probs, out, i, SNORKEL_AVAILABLE, model,
                   log, index, summary, first, pct, pipeline, spider>>

\* main(): coverage = np.mean(np.any(L != ABSTAIN, axis=1))
Coverage ==
    /\ mode = "diagnostics" /\ pc = "coverage"
    /\ summary' = [summary EXCEPT !.coverage = <<corpus_coverage(L)>>]
    /\ pc' = "analysis"
    /\ UNCHANGED <<mode, df, L, labels, probs, out, i, SNORKEL_AVAILABLE, model,
                   log, index, first, pct, pipeline, spider>>

\* analyze_lf_accuracy(L, labels, LF_NAMES) returns its table
AnalyzeLfAccuracy ==
    /\ mode = "diagnostics" /\ pc = "analysis"
    /\ summary' = [summary EXCEPT !.lf_analysis = analyze_lf_accuracy(L, labels)]
    /\ pc' = "reported"
    /\ UNCHANGED <<mode, df, L, labels, probs, out, i, SNORKEL_AVAILABLE, model,
                   log, index, first, pct, pipeline, spider>>

NextDiag == GetLfSummary \/ GetLfSummaryRaises \/ Coverage \/ AnalyzeLfAccuracy

SpecDiag == InitDiag /\ [][NextDiag]_vars

\* an aggregator called on a vote matrix, and called again on it
InitRerun ==
    /\ L \in {<<r>> : r \in SparseRows(MaxFiring)}
              \cup SeqsUpTo(BatchVoteRows, MaxRows)
    /\ mode \in {"hierarchical", "majority"}
    /\ df = <<>>
    /\ labels = ZeroLabels(Len(L))
    /\ probs = ZeroProbs(Len(L))
    /\ out = <<>>
    /\ pc = "aggregate"
    /\ i = 0
    /\ SNORKEL_AVAILABLE = FALSE
    /\ model = "unset"
    /\ log = <<>>
    /\ index = <<>>
    /\ summary = <<>>
    /\ first = <<>>
    /\ pct = <<>>
    /\ pipeline = <<>>
    /\ spider = <<>>

\* the caller keeps the result of the first call and calls the aggregator
\* again on the same matrix: labels = np.zeros(n_samples), probs =
\* np.zeros((n_samples, 5)) are allocated anew
SecondRun ==
    /\ mode \in {"hierarchical", "majority"} /\ pc = "returned" /\ first = <<>>
    /\ first' = <<[L |-> L, labels |-> labels, probs |-> probs]>>
    /\ labels' = ZeroLabels(Len(L))
    /\ probs' = ZeroProbs(Len(L))
    /\ pc' = "aggregate"
    /\ i' = 0
    /\ UNCHANGED <<mode, df, L, out, SNORKEL_AVAILABLE, model, log,
                   index, summary, pct, pipeline, spider>>

NextRerun == HierarchicalRow \/ MajorityRow \/ AggregateReturn \/ SecondRun

SpecRerun == InitRerun /\ [][NextRerun]_vars

\* apply_labeling_functions called on a contiguous shard of a frame, the
\* rows keeping the index labels they have in the frame (df.iloc[a:b])
InitShard ==
    /\ df \in SeqsUpTo(BatchObservations, MaxRows)
    /\ \E offset \in 0..MaxRows : index = [p \in 1..Len(df) |-> offset + p - 1]
    /\ mode = "shard"
    /\ L = AllAbstain(Len(df))
    /\ labels = <<>>
    /\ probs = <<>>
    /\ out = <<>>
    /\ pc = "apply"
    /\ i = 0
    /\ SNORKEL_AVAILABLE = FALSE
    /\ model = "unset"
    /\ log = <<>>
    /\ summary = <<>>
    /\ first = <<>>
    /\ pct = <<>>
    /\ pipeline = <<>>
    /\ spider = <<>>

\* the index label is not a row of L: L[i, j] = lf(row_dict) raises
\* IndexError inside the try, and so does L[i, j] = ABSTAIN inside the
\* except, which leaves the function
ApplyRowRaises ==
    /\ mode = "shard" /\ pc = "apply" /\ i < Len(df)
    /\ index[i + 1] >= Len(L)
    /\ pc' = "raised"
    /\ UNCHANGED <<mode, df, L, labels, probs, out, i, SNORKEL_AVAILABLE, model,
                   log, auxVars>>

\* apply_labeling_functions returns L to the worker
ShardReturn ==
    /\ mode = "shard" /\ pc = "apply" /\ i = Len(df)
    /\ pc' = "returned"
    /\ UNCHANGED <<mode, df, L, labels, probs, out, i, SNORKEL_AVAILABLE, model,
                   log, auxVars>>

NextShard == ApplyRow \/ ApplyRowRaises \/ ShardReturn

SpecShard == InitShard /\ [][NextShard]_vars

---------------------------------------------------------------------------
\* analyze_distributions.py: percentile thresholds

MaxLen == 3         \* values in a list, fights in a corpus

StrikeVolumes == {0, 60, 100, 140}

\* the percentiles main() asks for
THRESHOLD_PERCENTILES == <<10, 25, 50, 75, 90>>

PercentileLists == {THRESHOLD_PERCENTILES, <<0, 50, 100>>}

SeqRange(s) == {s[k] : k \in 1..Len(s)}

\* sorted(values): ascending order
insort(x, s) ==
    LET k == Cardinality({q \in 1..Len(s) : s[q] <= x})
    IN  SubSeq(s, 1, k) \o <<x>> \o SubSeq(s, k + 1, Len(s))

RECURSIVE sorted(_)
sorted(s) ==
    IF s = <<>> THEN <<>>
    ELSE insort(s[Len(s)], sorted(SubSeq(s, 1, Len(s) - 1)))

min(a, b) == IF a <= b THEN a ELSE b

calculate_percentiles_unsorted(values, percentiles) ==
    IF values = <<>> THEN [p \in SeqRange(percentiles) |-> 0]
    ELSE LET n == Len(values)
         IN  [p \in SeqRange(percentiles) |->
                 values[min((n * p) \div 100, n - 1) + 1]]

\* calculate_percentiles: a dict from each percentile to a value
calculate_percentiles(values, percentiles) ==
    IF values = <<>> THEN [p \in SeqRange(percentiles) |-> 0]
    ELSE LET sorted_vals == sorted(values)
             n == Len(sorted_vals)
         IN  [p \in SeqRange(percentiles) |->
                 sorted_vals[min((n * p) \div 100, n - 1) + 1]]

Fights == [total_sig_strikes : StrikeVolumes, has_bonus : BOOLEAN]

bonus_fights(fights) == SelectSeq(fights, LAMBDA f : f.has_bonus)
non_bonus_fights(fights) == SelectSeq(fights, LAMBDA f : ~f.has_bonus)
all_strikes(fights) == [k \in 1..Len(fights) |-> fights[k].total_sig_strikes]

\* either calculate_percentiles is called on a list of values, or main()
\* runs on the fights load_training_data returned
InitPercentiles ==
    /\ \/ /\ mode = "percentiles"
          /\ \E values \in SeqsUpTo(StrikeVolumes, MaxLen),
                percentiles \in PercentileLists :
                pct = [fights |-> <<>>, values |-> values,
                       percentiles |-> percentiles,
                       result |-> <<>>, thresholds |-> <<>>]
       \/ /\ mode = "distributions"
          /\ \E fights \in SeqsUpTo(Fights, MaxLen) :
                pct = [fights |-> fights, values |-> <<>>,
                       percentiles |-> <<>>,
                       result |-> <<>>, thresholds |-> <<>>]
    /\ pc = "start"
    /\ df = <<>>
    /\ L = <<>>
    /\ labels = <<>>
    /\ probs = <<>>
    /\ out = <<>>
    /\ i = 0
    /\ SNORKEL_AVAILABLE = FALSE
    /\ model = "unset"
    /\ log = <<>>
    /\ index = <<>>
    /\ summary = <<>>
    /\ first = <<>>
    /\ pipeline = <<>>
    /\ spider = <<>>

pctUnchanged == <<mode, df, L, labels, probs, out, i, SNORKEL_AVAILABLE, model,
                  log, index, summary, first, pipeline, spider>>

\* a call of calculate_percentiles(values, percentiles)
CalculatePercentiles ==
    /\ mode = "percentiles" /\ pc = "start"
    /\ pct' = [pct EXCEPT !.result =
                   calculate_percentiles(pct.values, pct.percentiles)]
    /\ pc' = "returned"
    /\ UNCHANGED pctUnchanged

\* main(): no fights, 100*len(bonus_fights)/len(fights) divides by zero
MainSplitRaises ==
    /\ mode = "distributions" /\ pc = "start"
    /\ Len(pct.fights) = 0
    /\ pc' = "raised"
    /\ UNCHANGED <<pct, pctUnchanged>>

\* main(): analyze_group returned {} for an empty group, and
\* bonus_stats['sig_strikes'] or non_bonus_stats['sig_strikes'] is a KeyError
MainCompareRaises ==
    /\ mode = "distributions" /\ pc = "start"
    /\ Len(pct.fights) > 0
    /\ \/ bonus_fights(pct.fights) = <<>>
       \/ non_bonus_fights(pct.fights) = <<>>
    /\ pc' = "raised"
    /\ UNCHANGED <<pct, pctUnchanged>>

\* main(): the percentiles of the strike volumes of all fights
MainPercentiles ==
    /\ mode = "distributions" /\ pc = "start"
    /\ bonus_fights(pct.fights) # <<>>
    /\ non_bonus_fights(pct.fights) # <<>>
    /\ pct' = [pct EXCEPT
                   !.values = all_strikes(pct.fights),
                   !.percentiles = THRESHOLD_PERCENTILES,
                   !.result = calculate_percentiles(all_strikes(pct.fights),
                                                    THRESHOLD_PERCENTILES)]
    /\ pc' = "thresholds"
    /\ UNCHANGED pctUnchanged

\* main(): the thresholds written to tier_thresholds.json
MainThresholds ==
    /\ mode = "distributions" /\ pc = "thresholds"
    /\ pct' = [pct EXCEPT !.thresholds =
                   [low_volume |-> pct.result[25],
                    medium_volume |-> pct.result[50],
                    high_volume |-> pct.result[75],
                    very_high_volume |-> pct.result[90]]]
    /\ pc' = "saved"
    /\ UNCHANGED pctUnchanged

NextPercentiles ==
    \/ CalculatePercentiles
    \/ MainSplitRaises
    \/ MainCompareRaises
    \/ MainPercentiles
    \/ MainThresholds

SpecPercentiles == InitPercentiles /\ [][NextPercentiles]_vars

---------------------------------------------------------------------------
\* ufc_scraper/pipelines.py: APIIngestionPipeline

ItemTypes == {"EventItem", "FightItem", "FighterItem", "OtherItem"}
ItemIds == {"a", "b"}

\* a scraped item: its class and its fields
Items == [type : ItemTypes, fields : [id : ItemIds]]

\* dict(item): the fields without the class
dict(item) == item.fields

\* the payload of post_to_api
payload(p) == [events |-> p.events, fights |-> p.fights,
               fighters |-> p.fighters]

\* the process is about to construct the pipeline; INGEST_API_SECRET is
\* set or not
InitPipeline ==
    /\ mode = "pipeline"
    /\ pc = "new"
    /\ \E secret \in BOOLEAN :
          pipeline = [api_secret |-> secret, events |-> <<>>, fights |-> <<>>,
                      fighters |-> <<>>, items |-> <<>>, returned |-> <<>>,
                      posts |-> <<>>, response |-> "none"]
    /\ df = <<>>
    /\ L = <<>>
    /\ labels = <<>>
    /\ probs = <<>>
    /\ out = <<>>
    /\ i = 0
    /\ SNORKEL_AVAILABLE = FALSE
    /\ model = "unset"
    /\ log = <<>>
    /\ index = <<>>
    /\ summary = <<>>
    /\ first = <<>>
    /\ pct = <<>>
    /\ spider = <<>>

pipelineUnchanged == <<mode, df, L, labels, probs, out, i, SNORKEL_AVAILABLE,
                       model, log, index, summary, first, pct, spider>>

\* __init__ and open_spider
PipelineInit ==
    /\ mode = "pipeline" /\ pc = "new"
    /\ pipeline.api_secret
    /\ pc' = "open"
    /\ UNCHANGED <<pipeline, pipelineUnchanged>>

\* __init__: ValueError, INGEST_API_SECRET is not set
PipelineInitRaises ==
    /\ mode = "pipeline" /\ pc = "new"
    /\ ~pipeline.api_secret
    /\ pc' = "raised"
    /\ UNCHANGED <<pipeline, pipelineUnchanged>>

ProcessItem_posts_item ==
    /\ mode = "pipeline" /\ pc = "open"
    /\ Len(pipeline.items) < MaxLen
    /\ \E item \in Items :
          pipeline' = [pipeline EXCEPT
              !.items = Append(@, item),
              !.events = IF item.type = "EventItem"
                         THEN Append(@, dict(item)) ELSE @,
              !.fights = IF item.type = "FightItem"
                         THEN Append(@, dict(item)) ELSE @,
              !.fighters = IF item.type = "FighterItem"
                           THEN Append(@, dict(item)) ELSE @,
              !.posts = Append(@, [events |-> <<dict(item)>>,
                                   fights |-> <<>>, fighters |-> <<>>]),
              !.returned = Append(@, item)]
    /\ UNCHANGED <<pc, pipelineUnchanged>>

\* process_item: the item goes to the list of its class, an item of
\* another class to none, and is returned
ProcessItem ==
    /\ mode = "pipeline" /\ pc = "open"
    /\ Len(pipeline.items) < MaxLen
    /\ \E item \in Items :
          pipeline' = [pipeline EXCEPT
              !.items = Append(@, item),
              !.events = IF item.type = "EventItem"
                         THEN Append(@, dict(item)) ELSE @,
              !.fights = IF item.type = "FightItem"
                         THEN Append(@, dict(item)) ELSE @,
              !.fighters = IF item.type = "FighterItem"
                           THEN Append(@, dict(item)) ELSE @,
              !.returned = Append(@, item)]
    /\ UNCHANGED <<pc, pipelineUnchanged>>

\* close_spider with nothing collected: a warning and no request
CloseSpiderNoData ==
    /\ mode = "pipeline" /\ pc = "open"
    /\ pipeline.events = <<>> /\ pipeline.fights = <<>>
    /\ pipeline.fighters = <<>>
    /\ pc' = "closed"
    /\ UNCHANGED <<pipeline, pipelineUnchanged>>

\* close_spider: post_to_api sends the payload and the API accepts it
CloseSpiderPosts ==
    /\ mode = "pipeline" /\ pc = "open"
    /\ ~(pipeline.events = <<>> /\ pipeline.fights = <<>>
            /\ pipeline.fighters = <<>>)
    /\ pipeline' = [pipeline EXCEPT !.posts = Append(@, payload(pipeline)),
                                    !.response = "ok"]
    /\ pc' = "closed"
    /\ UNCHANGED pipelineUnchanged

\* close_spider: requests.post or raise_for_status raises; post_to_api
\* logs and re-raises, close_spider logs and re-raises
CloseSpiderPostFails ==
    /\ mode = "pipeline" /\ pc = "open"
    /\ ~(pipeline.events = <<>> /\ pipeline.fights = <<>>
            /\ pipeline.fighters = <<>>)
    /\ pipeline' = [pipeline EXCEPT !.posts = Append(@, payload(pipeline)),
                                    !.response = "failed"]
    /\ pc' = "raised"
    /\ UNCHANGED pipelineUnchanged

NextPipeline ==
    \/ PipelineInit
    \/ PipelineInitRaises
    \/ ProcessItem
    \/ CloseSpiderNoData
    \/ CloseSpiderPosts
    \/ CloseSpiderPostFails

SpecPipeline == InitPipeline /\ [][NextPipeline]_vars

---------------------------------------------------------------------------
\* ufc_scraper/spiders/ufcstats.py: UFCStatsSpider

\* a spider argument: absent, or the string given with -a
NoArg == [k |-> "none", s |-> ""]
Str(s) == [k |-> "str", s |-> s]

Digits == <<"0", "1", "2", "3">>

LimitArgs == {NoArg, Str(""), Str("many")} \cup {Str(Digits[d]) : d \in 1..Len(Digits)}

\* truth value of an argument: None and '' are false
truthy(a) == a.k = "str" /\ a.s # ""

\* int(s) of a string: the number it writes, ValueError on other text
int_raises(a) == \A d \in 1..Len(Digits) : Digits[d] # a.s
int(a) == (CHOOSE d \in 1..Len(Digits) : Digits[d] = a.s) - 1

\* the date of an event of the list page: the ISO 8601 string of a day,
\* held as <<year, month, day>>
EventDates == {<<2024, 12, 14>>, <<2025, 9, 28>>, <<2025, 10, 4>>}

\* the date of a row without a date span: None
Undated == <<>>

\* order of the ISO strings: character by character, that is field by field
date_lt(a, b) ==
    \/ a[1] < b[1]
    \/ a[1] = b[1] /\ a[2] < b[2]
    \/ a[1] = b[1] /\ a[2] = b[2] /\ a[3] < b[3]

\* parsers.parse_event_list: the events of the page in page order
EventLists ==
    {[k \in 1..Len(ds) |-> [id |-> k, date |-> ds[k]]] :
         ds \in SeqsUpTo(EventDates \cup {Undated}, MaxLen)}

\* sorting compares dates as soon as there are two events, and None
\* compares with nothing: TypeError
sort_raises(events) ==
    /\ Len(events) >= 2
    /\ \E k \in 1..Len(events) : events[k].date = Undated

\* list.sort(key=date, reverse=...): stable in both directions
sort_insert(x, s, reverse) ==
    LET k == Cardinality({q \in 1..Len(s) :
                 IF reverse THEN ~date_lt(s[q].date, x.date)
                            ELSE ~date_lt(x.date, s[q].date)})
    IN  SubSeq(s, 1, k) \o <<x>> \o SubSeq(s, k + 1, Len(s))

RECURSIVE sort_by_date(_, _)
sort_by_date(s, reverse) ==
    IF s = <<>> THEN <<>>
    ELSE sort_insert(s[Len(s)], sort_by_date(SubSeq(s, 1, Len(s) - 1), reverse),
                     reverse)

\* events[:k] for k >= 0
head(s, k) == SubSeq(s, 1, min(k, Len(s)))

parse_requests_limit_on_completed(sp, event_type, events) ==
    LET sorted_events == sort_by_date(events, event_type = "completed")
    IN  IF event_type = "completed" /\ sp.limit.k = "none"
        THEN head(sorted_events, sp.completed_limit)
        ELSE IF sp.limit.k = "num" /\ sp.limit.n # 0
        THEN head(sorted_events, sp.limit.n)
        ELSE sorted_events

\* parse: the events whose detail pages are requested, in request order
parse_requests(sp, event_type, events) ==
    LET sorted_events == sort_by_date(events, event_type = "completed")
    IN  IF event_type = "completed"
        THEN head(sorted_events, sp.completed_limit)
        ELSE IF sp.limit.k = "num" /\ sp.limit.n # 0
        THEN head(sorted_events, sp.limit.n)
        ELSE sorted_events

\* the process is about to construct the spider with its arguments
InitSpider ==
    /\ mode = "spider"
    /\ pc = "new"
    /\ \E limit \in LimitArgs, completed_limit \in LimitArgs,
          include_completed \in {NoArg, Str("true")} :
          spider = [args |-> [limit |-> limit,
                              completed_limit |-> completed_limit,
                              include_completed |-> include_completed],
                    limit |-> None, completed_limit |-> 0,
                    include_completed |-> FALSE,
                    pending |-> {}, event_type |-> "none",
                    events |-> <<>>, requests |-> <<>>]
    /\ df = <<>>
    /\ L = <<>>
    /\ labels = <<>>
    /\ probs = <<>>
    /\ out = <<>>
    /\ i = 0
    /\ SNORKEL_AVAILABLE = FALSE
    /\ model = "unset"
    /\ log = <<>>
    /\ index = <<>>
    /\ summary = <<>>
    /\ first = <<>>
    /\ pct = <<>>
    /\ pipeline = <<>>

spiderUnchanged == <<mode, df, L, labels, probs, out, i, SNORKEL_AVAILABLE,
                     model, log, index, summary, first, pct, pipeline>>

\* __init__
SpiderInit ==
    /\ mode = "spider" /\ pc = "new"
    /\ truthy(spider.args.limit) => ~int_raises(spider.args.limit)
    /\ truthy(spider.args.completed_limit)
          => ~int_raises(spider.args.completed_limit)
    /\ spider' = [spider EXCEPT
          !.limit = IF truthy(spider.args.limit)
                    THEN Num(int(spider.args.limit)) ELSE None,
          !.include_completed = spider.args.include_completed.s = "true",
          !.completed_limit = IF truthy(spider.args.completed_limit)
                              THEN int(spider.args.completed_limit) ELSE 2]
    /\ pc' = "start"
    /\ UNCHANGED spiderUnchanged

\* __init__: int() of an argument that is no number raises ValueError
SpiderInitRaises ==
    /\ mode = "spider" /\ pc = "new"
    /\ \/ truthy(spider.args.limit) /\ int_raises(spider.args.limit)
       \/ truthy(spider.args.completed_limit)
             /\ int_raises(spider.args.completed_limit)
    /\ pc' = "raised"
    /\ UNCHANGED <<spider, spiderUnchanged>>

\* start_requests: the upcoming list page always, the completed list page
\* if include_completed
StartRequests ==
    /\ mode = "spider" /\ pc = "start"
    /\ spider' = [spider EXCEPT !.pending =
          IF spider.include_completed THEN {"upcoming", "completed"}
                                      ELSE {"upcoming"}]
    /\ pc' = "crawl"
    /\ UNCHANGED spiderUnchanged

\* parse: the response of one of the list pages arrives
Parse ==
    /\ mode = "spider" /\ pc = "crawl"
    /\ \E event_type \in spider.pending, events \in EventLists :
          /\ ~sort_raises(events)
          /\ spider' = [spider EXCEPT
                !.pending = @ \ {event_type},
                !.event_type = event_type,
                !.events = events,
                !.requests = parse_requests(spider, event_type, events)]
    /\ UNCHANGED <<pc, spiderUnchanged>>

\* parse: events.sort raises on a page with an undated event among others;
\* no request is made for the page
ParseRaises ==
    /\ mode = "spider" /\ pc = "crawl"
    /\ \E event_type \in spider.pending, events \in EventLists :
          /\ sort_raises(events)
          /\ spider' = [spider EXCEPT
                !.pending = @ \ {event_type},
                !.event_type = event_type,
                !.events = events,
                !.requests = <<>>]
    /\ pc' = "raised"
    /\ UNCHANGED spiderUnchanged

NextSpider ==
    SpiderInit \/ SpiderInitRaises \/ StartRequests \/ Parse \/ ParseRaises

SpecSpider == InitSpider /\ [][NextSpider]_vars

Next == ApplyRow \/ ApplyReturn \/ HierarchicalRow \/ AggregateReturn \/ SaveResults

NextVotes == HierarchicalRow \/ MajorityRow \/ AggregateReturn

Spec == Init /\ [][Next]_vars

SpecVotes == InitVotes /\ [][NextVotes]_vars

NextChain == HierarchicalRow \/ AggregateReturn

SpecChain == InitChain /\ [][NextChain]_vars

\* main() runs its steps one after the other, each to completion
SpecBatch == InitBatch /\ [][Next]_vars /\ WF_vars(Next)

---------------------------------------------------------------------------
\* Properties

Sum5(num) == num[1] + num[2] + num[3] + num[4] + num[5]

\* numpy.argmax: the first index of a maximal entry (1-based here)
ArgmaxFirst(num) ==
    CHOOSE t \in 1..5 : /\ \A u \in 1..5 : num[u] <= num[t]
                        /\ \A u \in 1..(t - 1) : num[u] < num[t]

UniqueMax(num) == \E t \in 1..5 : \A u \in (1..5) \ {t} : num[u] < num[t]

\* rows the running loop has passed
Labelled(r) == r \in 1..Len(df) /\ (pc = "apply" => r <= i)
Aggregated(r) == r \in 1..Len(L) /\ pc # "apply" /\ (pc = "aggregate" => r <= i)

AllCellsAbstain(r) == \A j \in 1..12 : r[j] = -1

\* C1: end to end, every observation whose bout-level bonus is FOTN is
\* labelled Tier 5 (label 4) with the vector [0, 0, 0, 0.05, 0.95],
\* whatever its other fields hold.
C1_FotnIsTier5 ==
    \A r \in 1..Len(df) :
        df[r].fight_bonus = "FOTN" =>
            /\ Aggregated(r) =>
                   /\ labels[r] = 4
                   /\ probs[r] = [num |-> <<0, 0, 0, 5, 95>>, den |-> 100]
            /\ pc = "done" => out[r].snorkel_tier = 5

\* an FOTN bout that the low-volume function votes Tier 1 is saved as Tier 5
C1_Witness ==
    /\ pc = "done"
    /\ \E r \in 1..Len(df) :
           /\ df[r].fight_bonus = "FOTN"
           /\ L[r][10] = 0
           /\ L[r][12] = 1
           /\ out[r].snorkel_tier = 5

\* The vectors hierarchical_aggregate writes, in hundredths
FixedVectors ==
    { <<0, 0, 0, 5, 95>>, <<0, 0, 5, 90, 5>>, <<0, 0, 10, 80, 10>>,
      <<0, 0, 5, 15, 80>>, <<0, 0, 10, 75, 15>>, <<0, 5, 15, 70, 10>>,
      <<0, 10, 65, 20, 5>>, <<5, 15, 60, 15, 5>>, <<0, 15, 60, 20, 5>>,
      <<70, 20, 8, 2, 0>>, <<25, 55, 15, 5, 0>>, <<20, 55, 20, 5, 0>>,
      <<15, 50, 25, 8, 2>> }

\* C2: for every vote row, hierarchical_aggregate emits one of 13 fixed
\* vectors, whose entries are non-negative and sum to 1, and the emitted
\* tier is argmax(probabilities) + 1, the maximum being unique.
C2_HierarchicalVectorIsDistribution ==
    mode = "hierarchical" =>
        \A r \in 1..Len(L) :
            Aggregated(r) =>
                /\ Cardinality(FixedVectors) = 13
                /\ probs[r].den = 100
                /\ probs[r].num \in FixedVectors
                /\ \A t \in 1..5 : probs[r].num[t] >= 0
                /\ Sum5(probs[r].num) = probs[r].den
                /\ UniqueMax(probs[r].num)
                /\ labels[r] + 1 = ArgmaxFirst(probs[r].num)

\* a row decided by the z-score level while five other functions vote
C2_Witness ==
    /\ mode = "hierarchical" /\ pc = "returned"
    /\ L[1][6] = 2
    /\ Cardinality({j \in 1..12 : L[1][j] # -1}) >= 6
    /\ probs[1].num = <<0, 10, 65, 20, 5>>
    /\ labels[1] = 2

\* C3 as stated: for every vote row, majority_vote_aggregate emits a vector
\* that sums to 1 and a tier equal to argmax(probabilities) + 1, argmax
\* being the first maximum.
C3_TierIsFirstArgmax ==
    mode = "majority" =>
        \A r \in 1..Len(L) :
            Aggregated(r) =>
                /\ Sum5(probs[r].num) = probs[r].den
                /\ labels[r] + 1 = ArgmaxFirst(probs[r].num)

\* C3 as amended: for every vote row, majority_vote_aggregate emits a
\* vector that sums to 1 and a tier whose probability is maximal; the tier
\* is argmax(probabilities) + 1 whenever the maximum is unique.
C3_TierIsAnArgmax ==
    mode = "majority" =>
        \A r \in 1..Len(L) :
            Aggregated(r) =>
                /\ probs[r].den > 0
                /\ Sum5(probs[r].num) = probs[r].den
                /\ \A t \in 1..5 : probs[r].num[t] <= probs[r].num[labels[r] + 1]
                /\ UniqueMax(probs[r].num) =>
                       labels[r] + 1 = ArgmaxFirst(probs[r].num)

\* two tiers tied, the higher one voted first: it is emitted, and it is not
\* the first maximum
C3_Witness ==
    /\ mode = "majority" /\ pc = "returned"
    /\ ~UniqueMax(probs[1].num)
    /\ Sum5(probs[1].num) = probs[1].den
    /\ labels[1] + 1 > ArgmaxFirst(probs[1].num)
    /\ probs[1].num[labels[1] + 1] = probs[1].num[ArgmaxFirst(probs[1].num)]

C5_NoVotesIsTier2 ==
    \A r \in 1..Len(L) :
        AllCellsAbstain(L[r]) =>
            /\ pc = "aggregate" /\ i = r - 1 =>
                   ENABLED (HierarchicalRow \/ MajorityRow)
            /\ Aggregated(r) =>
                   /\ labels[r] + 1 = 2
                   /\ mode = "hierarchical" =>
                          /\ probs[r] = [num |-> <<15, 50, 25, 8, 2>>, den |-> 100]
                          /\ np_max(probs[r]) = [num |-> 50, den |-> 100]
                   /\ mode = "majority" =>
                          probs[r] = [num |-> <<10, 60, 20, 10, 0>>, den |-> 100]

C5_Witness ==
    /\ mode = "majority" /\ pc = "returned"
    /\ AllCellsAbstain(L[1])
    /\ labels[1] = 1
    /\ probs[1].num = <<10, 60, 20, 10, 0>>

\* votes of a row for a tier, and the cell of the first of them
VotesFor(r, t) == {j \in 1..12 : r[j] = t}
FirstVoteFor(r, t) == CHOOSE j \in VotesFor(r, t) : \A m \in VotesFor(r, t) : j <= m

\* C6: on a row with at least one vote, majority_vote_aggregate emits the
\* tier with the most votes, a tie going to the tied tier voted first in
\* registry order, and probability[t] is (votes for t) / (non-abstaining
\* votes); abstentions count in neither.
C6_ModalTierAndVoteShares ==
    mode = "majority" =>
        \A r \in 1..Len(L) :
            Aggregated(r) /\ ~AllCellsAbstain(L[r]) =>
                LET voted == {j \in 1..12 : L[r][j] # -1}
                    t0 == labels[r]
                IN  /\ VotesFor(L[r], t0) # {}
                    /\ \A u \in 0..4 :
                           Cardinality(VotesFor(L[r], u)) <= Cardinality(VotesFor(L[r], t0))
                    /\ \A u \in (0..4) \ {t0} :
                           Cardinality(VotesFor(L[r], u)) = Cardinality(VotesFor(L[r], t0))
                               => FirstVoteFor(L[r], t0) < FirstVoteFor(L[r], u)
                    /\ \A t \in 0..4 :
                           probs[r].num[t + 1] * Cardinality(voted)
                               = Cardinality(VotesFor(L[r], t)) * probs[r].den
                    /\ probs[r].den > 0

\* three tiers voted, two of them tied at two votes, the higher tied tier
\* voted first and emitted, among abstentions
C6_Witness ==
    /\ mode = "majority" /\ pc = "returned"
    /\ Cardinality({j \in 1..12 : L[1][j] # -1}) = 5
    /\ \E u \in 0..4 :
           /\ u < labels[1]
           /\ Cardinality(VotesFor(L[1], u)) = 2
           /\ Cardinality(VotesFor(L[1], labels[1])) = 2
           /\ FirstVoteFor(L[1], labels[1]) < FirstVoteFor(L[1], u)
    /\ probs[1].den = 5

\* C7: apply_labeling_functions returns a matrix of N rows and 12 columns
\* whose cell (i, j) is the vote of the function LF_NAMES[j] on
\* observation i, every cell being in {-1, ..., 4}.
C7_MatrixHoldsVotesInRegistryOrder ==
    /\ Len(L) = Len(df)
    /\ \A r \in 1..Len(L) :
           /\ DOMAIN L[r] = 1..12
           /\ \A j \in 1..12 : L[r][j] \in -1..4
           /\ Labelled(r) =>
                  \A j \in 1..12 :
                      ~LF_NAMES(j, df[r]).exc => L[r][j] = LF_NAMES(j, df[r]).val

\* a returned matrix of two different rows; on one observation the
\* absolute-volume function votes Tier 3 and the z-score function abstains
C7_Witness ==
    /\ pc = "aggregate" /\ Len(df) = 2
    /\ L[1] # L[2]
    /\ \E r \in 1..2 : L[r][5] = 2 /\ L[r][6] = -1 /\ L[3 - r][6] = 3

\* C8: when a labeling function raises on an observation, that cell alone
\* is recorded as abstain, every other cell holds the vote of its function,
\* and the build goes on to the last observation and returns the matrix.
C8_FailureIsCellLocal ==
    /\ pc = "apply" => ENABLED (ApplyRow \/ ApplyReturn)
    /\ pc # "apply" => Len(L) = Len(df)
    /\ \A r \in 1..Len(df) : \A j \in 1..12 :
           Labelled(r) /\ LABELING_FUNCTIONS(j, df[r]).exc =>
               /\ L[r][j] = -1
               /\ \A r2 \in 1..Len(df) : \A j2 \in 1..12 :
                      /\ Labelled(r2)
                      /\ <<r2, j2>> # <<r, j>>
                      /\ ~LABELING_FUNCTIONS(j2, df[r2]).exc
                      => L[r2][j2] = LABELING_FUNCTIONS(j2, df[r2]).val

\* a function raises on the first of two observations; a later function
\* votes on that observation, and the second observation gets its votes
C8_Witness ==
    /\ pc = "aggregate" /\ Len(df) = 2
    /\ \E j \in 1..12 :
           /\ LABELING_FUNCTIONS(j, df[1]).exc
           /\ L[1][j] = -1
           /\ \E j2 \in (j + 1)..12 : L[1][j2] # -1
    /\ \E j \in 1..12 : L[2][j] # -1

\* what main() saves for observation r: the result of the aggregation of
\* the votes on that observation
SavedFor(r) ==
    /\ out[r].snorkel_tier \in 1..5
    /\ out[r].snorkel_tier = hierarchical_row(VoteRow(df[r])).label + 1
    /\ out[r].snorkel_tier = labels[r] + 1
    /\ out[r].snorkel_confidence.den = probs[r].den
    /\ \A t \in 1..5 : probs[r].num[t] <= out[r].snorkel_confidence.num
    /\ \E t \in 1..5 : probs[r].num[t] = out[r].snorkel_confidence.num
    /\ 0 <= out[r].snorkel_confidence.num
    /\ out[r].snorkel_confidence.num <= out[r].snorkel_confidence.den

\* C9: a batch run over N observations terminates and saves one result
\* per observation, in input order: a tier in 1..5 (label + 1) and a
\* confidence that is the maximum of the observation's probability vector
\* and lies in [0, 1].
C9_BatchCompletes ==
    /\ <>(pc = "done")
    /\ [](pc = "done" =>
             /\ Len(out) = Len(df)
             /\ \A r \in 1..Len(df) : SavedFor(r))

\* a finished batch of two observations saved with different tiers
C9_Witness ==
    /\ pc = "done" /\ Len(df) = 2 /\ Len(out) = 2
    /\ out[1].snorkel_tier = 5 /\ out[2].snorkel_tier = 1
    /\ out[2].snorkel_confidence = [num |-> 70, den |-> 100]

\* every numeric field 0, every flag false, no recognition, a decision
IsZeroDecision(o) ==
    /\ o.fight_bonus \in {"", "nan"}
    /\ o.fighter1_bonus \in {"", "nan"} /\ o.fighter2_bonus \in {"", "nan"}
    /\ o.implied_bonus \in {"False", "0"} /\ o.is_finish \in {"False", "0"}
    /\ \A x \in {o.round, o.total_fight_time_seconds, o.total_sig_strikes,
                 o.total_knockdowns, o.total_control_time,
                 o.total_sig_strikes_z} : x = [k |-> "num", n |-> 0]

\* C10 as stated: the all-zero decision resolves through the terminal
\* fallback to Tier 2 with confidence at most 0.5.
C10_ZeroDecisionIsTier2 ==
    pc = "done" =>
        \A r \in 1..Len(df) :
            IsZeroDecision(df[r]) =>
                /\ out[r].snorkel_tier = 2
                /\ 2 * out[r].snorkel_confidence.num <= out[r].snorkel_confidence.den

\* C10 as amended: the all-zero decision gets no positive vote, the
\* low-volume function votes Tier 1 on it (0 strikes is below the
\* low-volume cut) and the negative fallback resolves it to Tier 1 with
\* the vector [0.70, 0.20, 0.08, 0.02, 0] and confidence 0.70.
C10_ZeroDecisionIsTier1 ==
    pc = "done" =>
        \A r \in 1..Len(df) :
            IsZeroDecision(df[r]) =>
                /\ \A j \in 1..9 : L[r][j] = -1
                /\ L[r][10] = 0 /\ L[r][11] = -1 /\ L[r][12] = 1
                /\ out[r].snorkel_tier = 1
                /\ probs[r] = [num |-> <<70, 20, 8, 2, 0>>, den |-> 100]
                /\ out[r].snorkel_confidence = [num |-> 70, den |-> 100]

C10_Witness ==
    /\ pc = "done"
    /\ \E r \in 1..Len(df) : IsZeroDecision(df[r]) /\ out[r].snorkel_tier = 1

\* no official award in any bonus field, no implied recognition
NoRecognition(o) ==
    /\ o.fight_bonus \in {"", "nan"}
    /\ o.fighter1_bonus \in {"", "nan"} /\ o.fighter2_bonus \in {"", "nan"}
    /\ o.implied_bonus \notin {"True", "1"}

\* a finish in round 1, under 60 seconds, with more than 10 significant strikes
IsExplosiveFinish(o) ==
    /\ o.is_finish \in {"True", "1"}
    /\ o.round = [k |-> "num", n |-> 1]
    /\ o.total_fight_time_seconds.k = "num" /\ o.total_fight_time_seconds.n < 60
    /\ o.total_sig_strikes.k = "num" /\ o.total_sig_strikes.n > 10

\* C11: end to end, every observation without official or implied
\* recognition that is a round-1 finish under 60 seconds with more than 10
\* significant strikes gets no vote from the three recognition functions,
\* a Tier 5 vote from the early-finish function, and is labelled Tier 5
\* with the vector [0, 0, 0.05, 0.15, 0.80], whatever its knockdown,
\* control-time and z-score fields hold.
C11_EarlyFinishIsTier5 ==
    \A r \in 1..Len(df) :
        IsExplosiveFinish(df[r]) /\ NoRecognition(df[r]) =>
            /\ Labelled(r) => L[r][4] = 4 /\ \A j \in 1..3 : L[r][j] = -1
            /\ Aggregated(r) =>
                   /\ labels[r] = 4
                   /\ probs[r] = [num |-> <<0, 0, 5, 15, 80>>, den |-> 100]
            /\ pc = "done" => out[r].snorkel_tier = 5

\* a 45-second finish with 15 strikes, non-numeric knockdowns and z-score
\* and a NaN control time, saved as Tier 5
C11_Witness ==
    /\ pc = "done"
    /\ \E r \in 1..Len(df) :
           /\ IsExplosiveFinish(df[r]) /\ NoRecognition(df[r])
           /\ df[r].total_fight_time_seconds.n = 45
           /\ df[r].total_sig_strikes.n = 15
           /\ df[r].total_knockdowns.k = "text"
           /\ df[r].total_control_time.k = "nan"
           /\ df[r].total_sig_strikes_z.k = "text"
           /\ out[r].snorkel_tier = 5

\* a decision without a z-score, with fewer than 2 knockdowns, a positive
\* fight time, control time above 60% of it and fewer significant strikes
\* than the medium-volume cut (61)
IsOneSidedGrappling(o) ==
    /\ o.is_finish \notin {"True", "1"}
    /\ o.total_sig_strikes_z.k \in {"nan", "none"}
    /\ o.total_knockdowns.k = "num" /\ o.total_knockdowns.n < 2
    /\ o.total_fight_time_seconds.k = "num" /\ o.total_fight_time_seconds.n > 0
    /\ o.total_control_time.k = "num"
    /\ 10 * o.total_control_time.n > 6 * o.total_fight_time_seconds.n
    /\ o.total_sig_strikes.k = "num" /\ o.total_sig_strikes.n < 61

\* C12: end to end, a decision without recognition and without a z-score,
\* with fewer than 2 knockdowns, control time above 60% of a positive
\* fight time and fewer than 61 significant strikes gets no positive
\* vote, a Tier 1 vote from the one-sided-grappling function, and is
\* saved as Tier 1 with the vector [0.70, 0.20, 0.08, 0.02, 0], whatever
\* the low-volume and the low-action-decision functions vote.
C12_OneSidedGrapplingIsTier1 ==
    \A r \in 1..Len(df) :
        IsOneSidedGrappling(df[r]) /\ NoRecognition(df[r]) =>
            /\ Labelled(r) => L[r][11] = 0 /\ \A j \in 1..9 : L[r][j] = -1
            /\ Aggregated(r) =>
                   /\ labels[r] = 0
                   /\ probs[r] = [num |-> <<70, 20, 8, 2, 0>>, den |-> 100]
            /\ pc = "done" => out[r].snorkel_tier = 1

\* 40 strikes, 400 s of control in 600 s: the low-volume and the
\* low-action-decision functions vote Tier 2, the row is saved as Tier 1
C12_Witness ==
    /\ pc = "done"
    /\ \E r \in 1..Len(df) :
           /\ IsOneSidedGrappling(df[r]) /\ NoRecognition(df[r])
           /\ df[r].total_sig_strikes.n = 40
           /\ df[r].total_control_time.n = 400
           /\ df[r].total_fight_time_seconds.n = 600
           /\ L[r][10] = 1 /\ L[r][11] = 0 /\ L[r][12] = 1
           /\ out[r].snorkel_tier = 1

\* C13: end to end, a decision without official or implied recognition
\* whose strike z-score is above 1.5 gets a Tier 4 vote from the z-score
\* function and none from the recognition and early-finish functions, and
\* is saved as Tier 4 with the vector of the z-score level,
\* [0, 0.05, 0.15, 0.70, 0.10], whatever the absolute-volume function and
\* the later functions vote.
C13_HighZScoreIsTier4 ==
    \A r \in 1..Len(df) :
        /\ df[r].is_finish \notin {"True", "1"}
        /\ NoRecognition(df[r])
        /\ df[r].total_sig_strikes_z.k = "num"
        /\ df[r].total_sig_strikes_z.n > 150
        => /\ Labelled(r) => L[r][6] = 3 /\ \A j \in 1..4 : L[r][j] = -1
           /\ Aggregated(r) =>
                  /\ labels[r] = 3
                  /\ probs[r] = [num |-> <<0, 5, 15, 70, 10>>, den |-> 100]
           /\ pc = "done" => out[r].snorkel_tier = 4

\* 200 strikes with z = 1.6: the absolute-volume function votes Tier 3,
\* the row is saved as Tier 4
C13_Witness ==
    /\ pc = "done"
    /\ \E r \in 1..Len(df) :
           /\ df[r].is_finish = "False" /\ NoRecognition(df[r])
           /\ df[r].total_sig_strikes = [k |-> "num", n |-> 200]
           /\ df[r].total_sig_strikes_z = [k |-> "num", n |-> 160]
           /\ L[r][5] = 2 /\ L[r][6] = 3
           /\ out[r].snorkel_tier = 4

\* C14: with the label-model library absent, train_snorkel_model does not
\* raise and returns a null model with, for every row of the vote matrix,
\* the label and vector of majority_vote_aggregate: the default Tier 2
\* vector on a row without votes, else a tier with the most votes and the
\* vote shares.
C14_AbsentLibraryIsMajorityVote ==
    mode = "snorkel" /\ ~SNORKEL_AVAILABLE =>
        /\ pc \in {"train", "trained"}
        /\ pc = "train" =>
               \A r \in 1..Len(L) :
                   /\ majority_vote_row(L[r]).label \in 0..4
                   /\ majority_vote_row(L[r]).probs.den > 0
        /\ pc = "trained" =>
               /\ model = "None"
               /\ Len(labels) = Len(L) /\ Len(probs) = Len(L)
               /\ \A r \in 1..Len(L) :
                      /\ labels[r] = majority_vote_row(L[r]).label
                      /\ probs[r] = majority_vote_row(L[r]).probs
                      /\ AllCellsAbstain(L[r]) =>
                             /\ labels[r] = 1
                             /\ probs[r] = [num |-> <<10, 60, 20, 10, 0>>, den |-> 100]
                      /\ ~AllCellsAbstain(L[r]) =>
                             /\ \A u \in 0..4 :
                                    Cardinality(VotesFor(L[r], u))
                                        <= Cardinality(VotesFor(L[r], labels[r]))
                             /\ \A t \in 0..4 :
                                    probs[r].num[t + 1] = Cardinality(VotesFor(L[r], t))
                             /\ probs[r].den = Cardinality({j \in 1..12 : L[r][j] # -1})

\* the library absent: a two-row matrix comes back with a null model, a
\* row labelled by its majority where the priority chain says otherwise
C14_Witness ==
    /\ mode = "snorkel" /\ ~SNORKEL_AVAILABLE /\ pc = "trained"
    /\ model = "None"
    /\ Len(L) = 2 /\ Len(labels) = 2
    /\ \E r \in 1..2 :
           /\ ~AllCellsAbstain(L[r])
           /\ labels[r] # hierarchical_row(L[r]).label
           /\ probs[r].den >= 3

\* C15: with the label-model library present, a failure of its training
\* pass (fit or predict raises) does not leave train_snorkel_model: the
\* call returns one label and one vector per row, those of the majority
\* vote.
C15_TrainingFailureFallsBack ==
    mode = "snorkel" /\ SNORKEL_AVAILABLE =>
        /\ pc # "raised"
        /\ pc = "trained" => Len(labels) = Len(L) /\ Len(probs) = Len(L)

\* the positive-signal functions (registry indices 0 to 8) voting on a row,
\* the first of them, and the row with that vote alone
PositiveVotes(r) == {j \in 1..9 : r[j] # -1}
FirstPositiveVote(r) == CHOOSE j \in PositiveVotes(r) : \A m \in PositiveVotes(r) : j <= m
OnlyFirstPositiveVote(r) ==
    [j \in 1..12 |-> IF j = FirstPositiveVote(r) THEN r[j] ELSE -1]

\* C16: the priority chain of hierarchical_aggregate is the registry
\* order: a row on which a positive-signal function (indices 0 to 8) votes
\* is decided by the level of the lowest-index one that votes, so it gets
\* the tier and vector of the row on which that function votes alone; a
\* row on which lf_high_volume_competitive (index 4) is the first to vote
\* gets the vector of its level, [0, 0.15, 0.60, 0.20, 0.05].
C16_ChainIsRegistryOrder ==
    mode = "hierarchical" =>
        \A r \in 1..Len(L) :
            Aggregated(r) /\ PositiveVotes(L[r]) # {} =>
                /\ labels[r] = hierarchical_row(OnlyFirstPositiveVote(L[r])).label
                /\ probs[r] = hierarchical_row(OnlyFirstPositiveVote(L[r])).probs
                /\ FirstPositiveVote(L[r]) = 5 =>
                       probs[r] = [num |-> <<0, 15, 60, 20, 5>>, den |-> 100]

\* a second-tier official award (POTN, KOTN, SOTN) or an implied one, and
\* no FOTN
HasLesserRecognition(o) ==
    /\ o.fight_bonus # "FOTN"
    /\ \/ o.fight_bonus \in {"POTN", "KOTN", "SOTN"}
       \/ o.fighter1_bonus \in {"POTN", "KOTN", "SOTN"}
       \/ o.fighter2_bonus \in {"POTN", "KOTN", "SOTN"}
       \/ o.implied_bonus \in {"True", "1"}

SameBout(a, b) ==
    /\ a.is_finish = b.is_finish /\ a.round = b.round
    /\ a.total_fight_time_seconds = b.total_fight_time_seconds
    /\ a.total_sig_strikes = b.total_sig_strikes
    /\ a.total_knockdowns = b.total_knockdowns
    /\ a.total_control_time = b.total_control_time
    /\ a.total_sig_strikes_z = b.total_sig_strikes_z

\* C17: of two observations of a batch that are the same in every field
\* but the recognition, one without any, the other with a second-tier
\* official award or an implied one, the recognised one is not saved with
\* a lower tier than the other.
C17_MonotonicInRecognition ==
    pc = "done" =>
        \A a \in 1..Len(df) : \A b \in 1..Len(df) :
            /\ SameBout(df[a], df[b])
            /\ NoRecognition(df[a])
            /\ HasLesserRecognition(df[b])
            => out[b].snorkel_tier >= out[a].snorkel_tier

\* C18: on every observation on which lf_fotn_bonus or lf_potn_bonus
\* votes, an award recorded only in fighter1_bonus or fighter2_bonus
\* included, lf_implied_bonus abstains, whatever implied_bonus holds.
C18_ImpliedAbstainsOnOfficialAward ==
    \A r \in 1..Len(df) :
        Labelled(r) /\ (L[r][1] # -1 \/ L[r][2] # -1) => L[r][3] = -1

\* C19: each of the 12 labeling functions, called on an observation of
\* which a field it reads is missing or malformed (None, empty, NaN,
\* non-numeric text), returns a vote in -1..4 and does not raise.
C19_FunctionsNeverRaise ==
    \A r \in 1..Len(df) :
        Labelled(r) =>
            \A j \in 1..12 :
                /\ ~LABELING_FUNCTIONS(j, df[r]).exc
                /\ LABELING_FUNCTIONS(j, df[r]).val \in -1..4

\* the cells of the rows labelled so far whose function raised
RaisedCells ==
    {<<r, j>> \in (1..Len(df)) \X (1..12) :
        Labelled(r) /\ LABELING_FUNCTIONS(j, df[r]).exc}

\* C20: apply_labeling_functions emits one log record, naming the
\* observation and the function, for every cell it sets to abstain
\* because the function raised: after each row, the records are as many
\* as those cells, and each such cell has its record.
C20_FailuresAreLogged ==
    /\ Len(log) = Cardinality(RaisedCells)
    /\ \A c \in RaisedCells : \E k \in 1..Len(log) : log[k] = c

\* rows of L whose cell j is a vote
Voting(j) == {r \in 1..Len(L) : L[r][j] # -1}

\* C21: for a vote matrix of N >= 1 rows, the coverage of function j in
\* the tables of get_lf_summary and of analyze_lf_accuracy is (rows whose
\* cell j is a vote) / N, the five per-tier counts of get_lf_summary sum
\* to that number of rows, and the corpus coverage is (rows with at least
\* one vote) / N.
C21_CoverageFormulas ==
    mode = "diagnostics" /\ pc = "reported" /\ Len(L) >= 1 =>
        /\ \A j \in 1..12 :
               LET s == summary.lf_summary[j]
                   a == summary.lf_analysis[j]
               IN  /\ s.coverage.den > 0 /\ a.coverage.den > 0
                   /\ s.coverage.num * Len(L) = Cardinality(Voting(j)) * s.coverage.den
                   /\ a.coverage.num * Len(L) = Cardinality(Voting(j)) * a.coverage.den
                   /\ s.n_labels = Cardinality(Voting(j))
                   /\ s.n_tier1 + s.n_tier2 + s.n_tier3 + s.n_tier4 + s.n_tier5
                          = Cardinality(Voting(j))
        /\ LET c == summary.coverage[1]
           IN  /\ c.den > 0
               /\ c.num * Len(L)
                      = Cardinality({r \in 1..Len(L) : ~AllCellsAbstain(L[r])}) * c.den

\* two rows, one of them without a vote: corpus coverage 1/2, and a
\* function that votes on one row only
C21_Witness ==
    /\ mode = "diagnostics" /\ pc = "reported" /\ Len(L) = 2
    /\ \E r \in 1..2 : AllCellsAbstain(L[r])
    /\ summary.coverage[1] = [num |-> 1, den |-> 2]
    /\ \E j \in 1..12 : summary.lf_summary[j].coverage = [num |-> 1, den |-> 2]

\* C22: for a vote matrix and final labels, analyze_lf_accuracy reports
\* for function j the rate (rows where cell j is a vote equal to the final
\* label) / (rows where cell j is a vote), and 0 for a function that
\* abstains on every row.
C22_AgreementRate ==
    mode = "diagnostics" /\ pc = "reported" =>
        \A j \in 1..12 :
            LET a == summary.lf_analysis[j].agreement_with_model
                agree == {r \in Voting(j) : L[r][j] = labels[r]}
            IN  /\ a.den > 0
                /\ Voting(j) = {} => a.num = 0
                /\ Voting(j) # {} =>
                       a.num * Cardinality(Voting(j)) = Cardinality(agree) * a.den

\* two rows: a function votes on both and agrees with the final label on
\* one; another votes on one row only; another abstains on both
C22_Witness ==
    /\ mode = "diagnostics" /\ pc = "reported" /\ Len(L) = 2
    /\ \E j \in 1..12 :
           /\ Cardinality(Voting(j)) = 2
           /\ summary.lf_analysis[j].agreement_with_model = [num |-> 1, den |-> 2]
    /\ \E j \in 1..12 :
           /\ Cardinality(Voting(j)) = 1
           /\ summary.lf_analysis[j].agreement_with_model = [num |-> 1, den |-> 1]
    /\ \E j \in 1..12 :
           /\ Voting(j) = {}
           /\ summary.lf_analysis[j].agreement_with_model.num = 0

C24_ShardsGiveSerialRows ==
    mode = "shard" =>
        /\ pc # "raised"
        /\ pc = "returned" =>
               /\ Len(L) = Len(df)
               /\ \A p \in 1..Len(df) : L[p] = VoteRow(df[p])

\* C25: building the percentile thresholds from an empty list of strike
\* volumes ends in an error: no percentile value and no threshold is
\* produced from it.
C25_EmptyCorpusIsFatal ==
    (mode \in {"percentiles", "distributions"}
        /\ pct.values = <<>> /\ pct.fights = <<>>)
    => pc \in {"start", "raised"}

\* C30: on a non-empty list every value calculate_percentiles returns is
\* an element of the list, namely one with at most min(floor(n*p/100),
\* n-1) elements below it and more than that many not above it; the
\* values do not decrease as p grows; and the thresholds main() derives
\* are ordered low <= medium <= high <= very high.
C30_PercentilesAreOrderedElements ==
    (mode \in {"percentiles", "distributions"}
        /\ pc \in {"returned", "thresholds", "saved"} /\ pct.values # <<>>)
    => LET v == pct.values
           n == Len(v)
           res == pct.result
       IN  /\ \A p \in SeqRange(pct.percentiles) :
                 LET idx == IF (n * p) \div 100 < n - 1
                            THEN (n * p) \div 100 ELSE n - 1
                 IN  /\ res[p] \in SeqRange(v)
                     /\ Cardinality({k \in 1..n : v[k] < res[p]}) <= idx
                     /\ Cardinality({k \in 1..n : v[k] <= res[p]}) > idx
           /\ \A p, q \in SeqRange(pct.percentiles) :
                 p <= q => res[p] <= res[q]
           /\ pc = "saved" =>
                 /\ pct.thresholds.low_volume <= pct.thresholds.medium_volume
                 /\ pct.thresholds.medium_volume <= pct.thresholds.high_volume
                 /\ pct.thresholds.high_volume
                        <= pct.thresholds.very_high_volume

\* a corpus whose strike volumes arrive out of order has its thresholds
\* saved, and a list out of order has its 100th percentile taken
C30_Witness ==
    \/ /\ mode = "distributions" /\ pc = "saved"
       /\ pct.values = <<140, 0, 60>>
    \/ /\ mode = "percentiles" /\ pc = "returned"
       /\ pct.values = <<100, 60>> /\ 100 \in SeqRange(pct.percentiles)

ItemsOfType(t) ==
    LET sel == SelectSeq(pipeline.items, LAMBDA it : it.type = t)
    IN  [k \in 1..Len(sel) |-> sel[k].fields]

\* C26: whatever items process_item is given before close_spider: nothing
\* is posted while the spider is open; the events, fights and fighters are
\* buffered in arrival order, each in its own list, and every item is
\* returned as it came; after close_spider exactly one POST carrying all
\* the buffered items was sent if anything was collected and none
\* otherwise; and a failed POST leaves close_spider by the exception.
C26_OneBatchAtClose ==
    mode = "pipeline" =>
        /\ pc \in {"new", "open"} => pipeline.posts = <<>>
        /\ pipeline.returned = pipeline.items
        /\ pipeline.events = ItemsOfType("EventItem")
        /\ pipeline.fights = ItemsOfType("FightItem")
        /\ pipeline.fighters = ItemsOfType("FighterItem")
        /\ (pc = "closed" \/ (pc = "raised" /\ pipeline.api_secret)) =>
              IF \E k \in 1..Len(pipeline.items) :
                     pipeline.items[k].type # "OtherItem"
              THEN pipeline.posts =
                       <<[events |-> ItemsOfType("EventItem"),
                          fights |-> ItemsOfType("FightItem"),
                          fighters |-> ItemsOfType("FighterItem")]>>
              ELSE pipeline.posts = <<>>
        /\ pipeline.response = "failed" => pc = "raised"
        /\ pipeline.response = "ok" => pc = "closed"

\* two different events and a fighter were collected and the POST failed
C26_Witness ==
    /\ mode = "pipeline" /\ pc = "raised"
    /\ pipeline.response = "failed"
    /\ Len(pipeline.posts) = 1
    /\ Len(pipeline.events) = 2
    /\ pipeline.events[1] # pipeline.events[2]
    /\ Len(pipeline.fighters) = 1

\* the day of a date as one number
Chron(d) == d[1] * 10000 + d[2] * 100 + d[3]

RequestedIds == {spider.requests[k].id : k \in 1..Len(spider.requests)}

C29_FinishIsTier3OrHigher ==
    mode = "main" =>
        \A r \in 1..Len(df) :
            (InTrueList(df[r].is_finish) /\ df[r].fight_bonus \in BonusValues)
            => /\ Labelled(r) => \E j \in 1..9 : L[r][j] # ABSTAIN
               /\ Aggregated(r) => labels[r] >= TIER_3_GOOD
               /\ pc = "done" => out[r].snorkel_tier >= 3

\* a finish with NaN strikes, where every function reading the strike
\* count raises, is saved as Tier 3
C29_Witness ==
    /\ mode = "main" /\ pc = "done"
    /\ \E r \in 1..Len(df) :
          /\ InTrueList(df[r].is_finish)
          /\ df[r].fight_bonus = ""
          /\ df[r].total_sig_strikes = NaN
          /\ out[r].snorkel_tier = 3

===========================================================================
